---- MODULE Spec2Model ----
(***************************************************************************)
(* Model of btrfsd: the scheduler (btd-scheduler.c), the per-filesystem    *)
(* state record (btd-fs-record.c), and the helpers they call               *)
(* (btd-utils.c, btd-filesystem.c, btd-mailer.c).                          *)
(*                                                                         *)
(* C strings are tuples of one-character strings; NULL is a tuple that no  *)
(* C string equals.  Times are seconds since the epoch.                    *)
(***************************************************************************)
EXTENDS Integers, Sequences, FiniteSets, TLC

(***************************************************************************)
(* Program constants                                                       *)
(***************************************************************************)
SECONDS_IN_AN_HOUR == 3600
SECONDS_IN_A_DAY == 24 * SECONDS_IN_AN_HOUR
SECONDS_IN_A_WEEK == 7 * SECONDS_IN_A_DAY
SECONDS_IN_A_MONTH == 2630016

BTD_BTRFS_ACTION_STATS == 1
BTD_BTRFS_ACTION_SCRUB == 2
BTD_BTRFS_ACTION_BALANCE == 3
BTD_BTRFS_ACTION_LAST == 4

Actions == (BTD_BTRFS_ACTION_STATS) .. (BTD_BTRFS_ACTION_LAST - 1)

(* minutes subtracted from time(NULL) in btd_scheduler_load, in seconds *)
ReferenceSlack == 60
(* reminder windows of the stats handler *)
BroadcastWindow == SECONDS_IN_AN_HOUR * 6
MailWindow == SECONDS_IN_AN_HOUR * 20

(***************************************************************************)
(* C strings                                                               *)
(***************************************************************************)
NULL == <<"NULL">>

Digits == {"0", "1", "2", "3", "4", "5", "6", "7", "8", "9"}

Ord(c) ==
    CASE c = " " -> 32
      [] c = "+" -> 43
      [] c = "-" -> 45
      [] c = "." -> 46
      [] c = "/" -> 47
      [] c = "0" -> 48
      [] c = "1" -> 49
      [] c = "2" -> 50
      [] c = "3" -> 51
      [] c = "4" -> 52
      [] c = "5" -> 53
      [] c = "6" -> 54
      [] c = "7" -> 55
      [] c = "8" -> 56
      [] c = "9" -> 57
      [] c = "@" -> 64
      [] c = "M" -> 77
      [] c = "\\" -> 92
      [] c = "_" -> 95
      [] c = "a" -> 97
      [] c = "b" -> 98
      [] c = "c" -> 99
      [] c = "d" -> 100
      [] c = "e" -> 101
      [] c = "f" -> 102
      [] c = "h" -> 104
      [] c = "l" -> 108
      [] c = "n" -> 110
      [] c = "o" -> 111
      [] c = "r" -> 114
      [] c = "t" -> 116
      [] c = "u" -> 117
      [] c = "v" -> 118
      [] c = "w" -> 119

DigitVal(c) == Ord(c) - 48

(* strcmp on the bytes: <0, 0, >0 *)
RECURSIVE g_strcmp0(_, _)
g_strcmp0(a, b) ==
    IF a = <<>> /\ b = <<>> THEN 0
    ELSE IF a = <<>> THEN -1
    ELSE IF b = <<>> THEN 1
    ELSE IF Ord(Head(a)) # Ord(Head(b)) THEN Ord(Head(a)) - Ord(Head(b))
    ELSE g_strcmp0(Tail(a), Tail(b))

btd_is_empty(str) == str = NULL \/ str = <<>>

g_ascii_isspace(c) == c = " "

RECURSIVE StripLeading(_)
StripLeading(s) ==
    IF s # <<>> /\ g_ascii_isspace(Head(s)) THEN StripLeading(Tail(s)) ELSE s

RECURSIVE StripTrailing(_)
StripTrailing(s) ==
    IF s # <<>> /\ g_ascii_isspace(s[Len(s)])
    THEN StripTrailing(SubSeq(s, 1, Len(s) - 1))
    ELSE s

g_strstrip(s) == StripTrailing(StripLeading(s))

(***************************************************************************)
(* btd_parse_duration_string                                               *)
(***************************************************************************)
RECURSIVE DigitRun(_, _)
DigitRun(s, acc) ==
    IF s # <<>> /\ Head(s) \in Digits
    THEN DigitRun(Tail(s), acc * 10 + DigitVal(Head(s)))
    ELSE acc

(* base-10 strtoll: leading blanks, optional sign, then digits *)
g_ascii_strtoll(str) ==
    LET s == StripLeading(str)
    IN  IF s # <<>> /\ Head(s) = "-" THEN 0 - DigitRun(Tail(s), 0)
        ELSE IF s # <<>> /\ Head(s) = "+" THEN DigitRun(Tail(s), 0)
        ELSE DigitRun(s, 0)

(* a parser that reads a bare integer as seconds *)
parse_duration_string_bare_seconds(str) ==
    IF btd_is_empty(str) THEN 0
    ELSE LET suffix == str[Len(str)]
             value == g_ascii_strtoll(str)
         IN  IF value <= 0 THEN 0
             ELSE IF suffix = "h" THEN value * SECONDS_IN_AN_HOUR
             ELSE IF suffix = "d" THEN value * SECONDS_IN_A_DAY
             ELSE IF suffix = "w" THEN value * SECONDS_IN_A_WEEK
             ELSE IF suffix = "M" THEN value * SECONDS_IN_A_MONTH
             ELSE IF suffix \notin Digits THEN 0
             ELSE value

btd_parse_duration_string(str) ==
    IF btd_is_empty(str) THEN 0
    ELSE LET suffix == str[Len(str)]
             value == g_ascii_strtoll(str)
         IN  IF value <= 0 THEN 0
             ELSE IF suffix = "h" THEN value * SECONDS_IN_AN_HOUR
             ELSE IF suffix = "d" THEN value * SECONDS_IN_A_DAY
             ELSE IF suffix = "w" THEN value * SECONDS_IN_A_WEEK
             ELSE IF suffix = "M" THEN value * SECONDS_IN_A_MONTH
             ELSE IF suffix \notin Digits THEN 0
             ELSE value * SECONDS_IN_AN_HOUR

(***************************************************************************)
(* btd_render_template                                                     *)
(***************************************************************************)
g_str_has_prefix(str, prefix) ==
    Len(prefix) <= Len(str) /\ SubSeq(str, 1, Len(prefix)) = prefix

OPEN_BRACES == <<"{", "{">>
CLOSE_BRACES == <<"}", "}">>

(* the pieces of remainder between the occurrences of delimiter, found
   from left to right; piece is what was read of the current one *)
RECURSIVE SplitFrom(_, _, _)
SplitFrom(remainder, delimiter, piece) ==
    IF remainder = <<>> THEN <<piece>>
    ELSE IF g_str_has_prefix(remainder, delimiter)
    THEN <<piece>> \o SplitFrom(SubSeq(remainder, Len(delimiter) + 1, Len(remainder)),
                                delimiter, <<>>)
    ELSE SplitFrom(Tail(remainder), delimiter, Append(piece, Head(remainder)))

(* no piece at all for the empty string *)
g_strsplit(string, delimiter) ==
    IF string = <<>> THEN <<>> ELSE SplitFrom(string, delimiter, <<>>)

RECURSIVE g_strjoinv(_)
g_strjoinv(str_array) ==
    IF str_array = <<>> THEN <<>> ELSE Head(str_array) \o g_strjoinv(Tail(str_array))

(* the variable list: NULL values become "" *)
TemplateVars(pairs) ==
    [j \in 1..Len(pairs) |->
        [key |-> pairs[j][1], val |-> IF pairs[j][2] = NULL THEN <<>> ELSE pairs[j][2]]]

MatchingVars(part, vars) ==
    {j \in 1..Len(vars) : g_str_has_prefix(part, vars[j].key \o CLOSE_BRACES)}

FirstOf(S) == CHOOSE j \in S : \A k \in S : j <= k

(* a piece that loses the braces of an unknown placeholder *)
RenderPartDropUnknown(part, i, vars) ==
    IF MatchingVars(part, vars) # {}
    THEN LET v == vars[FirstOf(MatchingVars(part, vars))]
         IN  v.val \o SubSeq(part, Len(v.key) + 3, Len(part))
    ELSE part

(* parts[i] after the loop body: i counts from 0 *)
RenderPart(part, i, vars) ==
    IF MatchingVars(part, vars) # {}
    THEN LET v == vars[FirstOf(MatchingVars(part, vars))]
         IN  v.val \o SubSeq(part, Len(v.key) + 3, Len(part))
    ELSE IF i # 0 THEN OPEN_BRACES \o part
    ELSE part

(* pairs is the argument list key1, value1, ... up to the closing NULL *)
btd_render_template(template, pairs) ==
    IF template = NULL THEN NULL
    ELSE IF pairs = <<>> THEN template
    ELSE LET parts == g_strsplit(template, OPEN_BRACES)
             vars == TemplateVars(pairs)
         IN  g_strjoinv([i \in 1..Len(parts) |-> RenderPart(parts[i], i - 1, vars)])

(***************************************************************************)
(* btd_path_to_filename                                                    *)
(***************************************************************************)
(* path components between slashes, empty ones dropped *)
RECURSIVE SplitPath(_, _, _)
SplitPath(s, cur, acc) ==
    IF s = <<>> THEN (IF cur = <<>> THEN acc ELSE Append(acc, cur))
    ELSE IF Head(s) = "/"
         THEN SplitPath(Tail(s), <<>>, IF cur = <<>> THEN acc ELSE Append(acc, cur))
         ELSE SplitPath(Tail(s), Append(cur, Head(s)), acc)

(* "." is dropped, ".." removes the component before it *)
RECURSIVE ResolveDots(_, _)
ResolveDots(parts, acc) ==
    IF parts = <<>> THEN acc
    ELSE IF Head(parts) = <<".">> THEN ResolveDots(Tail(parts), acc)
    ELSE IF Head(parts) = <<".", ".">>
         THEN ResolveDots(Tail(parts),
                          IF acc = <<>> THEN acc ELSE SubSeq(acc, 1, Len(acc) - 1))
         ELSE ResolveDots(Tail(parts), Append(acc, Head(parts)))

RECURSIVE JoinPath(_)
JoinPath(parts) ==
    IF parts = <<>> THEN <<>>
    ELSE IF Len(parts) = 1 THEN Head(parts)
    ELSE Head(parts) \o <<"/">> \o JoinPath(Tail(parts))

(* g_canonicalize_filename (path, "/"): relative paths are taken from the
   root; exactly two leading slashes are kept *)
g_canonicalize_filename(path) ==
    LET abs == IF path # <<>> /\ Head(path) = "/" THEN path ELSE <<"/">> \o path
        twoSlashes == /\ Len(abs) >= 2
                      /\ abs[2] = "/"
                      /\ (Len(abs) = 2 \/ abs[3] # "/")
        root == IF twoSlashes THEN <<"/", "/">> ELSE <<"/">>
    IN  root \o JoinPath(ResolveDots(SplitPath(abs, <<>>, <<>>), <<>>))

(* g_str_hash: h = 5381; h = h * 33 + c, in 32 bits; kept as two 16-bit halves *)
RECURSIVE StrHashFrom(_, _, _)
StrHashFrom(s, hi, lo) ==
    IF s = <<>> THEN <<hi, lo>>
    ELSE LET l == lo * 33 + Ord(Head(s))
             h == hi * 33 + (l \div 65536)
         IN  StrHashFrom(Tail(s), h % 65536, l % 65536)

g_str_hash(s) == StrHashFrom(s, 0, 5381)

RECURSIVE ReplaceChar(_, _, _)
ReplaceChar(s, from, to) ==
    IF s = <<>> THEN <<>>
    ELSE <<IF Head(s) = from THEN to ELSE Head(s)>> \o ReplaceChar(Tail(s), from, to)

(* a file name whose hash does not depend on the path *)
path_to_filename_constant_hash(path) ==
    LET canonical_path == g_canonicalize_filename(path)
        erased == IF canonical_path # <<>> /\ Head(canonical_path) = "/"
                  THEN Tail(canonical_path) ELSE canonical_path
        dotted == IF erased # <<>> /\ Head(erased) = "." THEN <<"_">> \o erased ELSE erased
    IN  IF erased = <<>> THEN <<<<"-">>>>
        ELSE <<ReplaceChar(ReplaceChar(dotted, "/", "-"), "\\", "-"), <<0, 5381>>>>

(* the file name is the stem followed by "_" and the hash printed with %u;
   it is kept as the pair <<stem, hash>> *)
btd_path_to_filename(path) ==
    LET canonical_path == g_canonicalize_filename(path)
        short_hash == g_str_hash(canonical_path)
        erased == IF canonical_path # <<>> /\ Head(canonical_path) = "/"
                  THEN Tail(canonical_path) ELSE canonical_path
        dotted == IF erased # <<>> /\ Head(erased) = "." THEN <<"_">> \o erased ELSE erased
    IN  IF erased = <<>> THEN <<<<"-">>>>
        ELSE <<ReplaceChar(ReplaceChar(dotted, "/", "-"), "\\", "-"), short_hash>>

btd_fs_record_get_state_filename(mountpoint) == btd_path_to_filename(mountpoint)

(***************************************************************************)
(* btd_humanize_time                                                       *)
(***************************************************************************)
(* a count that is always followed by the plural *)
CountedPlural(count, singular, plural) == <<count, plural>>

(* "%" G_GINT64_FORMAT " %s": the count and its unit, kept as two words *)
Counted(count, singular, plural) == <<count, IF count = 1 THEN singular ELSE plural>>

(* the text is kept as its words, which the format strings join with blanks *)
btd_humanize_time(seconds) ==
    IF seconds < 60 THEN Counted(seconds, "second", "seconds")
    ELSE IF seconds < SECONDS_IN_AN_HOUR
    THEN IF seconds % 60 = 0
         THEN Counted(seconds \div 60, "minute", "minutes")
         ELSE Counted(seconds \div 60, "minute", "minutes")
                  \o Counted(seconds % 60, "second", "seconds")
    ELSE IF seconds < SECONDS_IN_A_DAY
    THEN IF (seconds % SECONDS_IN_AN_HOUR) \div 60 = 0
         THEN Counted(seconds \div SECONDS_IN_AN_HOUR, "hour", "hours")
         ELSE Counted(seconds \div SECONDS_IN_AN_HOUR, "hour", "hours")
                  \o Counted((seconds % SECONDS_IN_AN_HOUR) \div 60, "minute", "minutes")
    ELSE IF seconds < SECONDS_IN_A_MONTH
    THEN IF (seconds % SECONDS_IN_A_DAY) \div SECONDS_IN_AN_HOUR = 0
         THEN Counted(seconds \div SECONDS_IN_A_DAY, "day", "days")
         ELSE Counted(seconds \div SECONDS_IN_A_DAY, "day", "days")
                  \o Counted((seconds % SECONDS_IN_A_DAY) \div SECONDS_IN_AN_HOUR,
                             "hour", "hours")
    ELSE IF (seconds % SECONDS_IN_A_MONTH) \div SECONDS_IN_A_DAY = 0
         THEN Counted(seconds \div SECONDS_IN_A_MONTH, "month", "months")
         ELSE Counted(seconds \div SECONDS_IN_A_MONTH, "month", "months")
                  \o Counted((seconds % SECONDS_IN_A_MONTH) \div SECONDS_IN_A_DAY,
                             "day", "days")

(***************************************************************************)
(* GKeyFile: a map from <<group, key>> to a value                          *)
(***************************************************************************)
EmptyKeyFile == [x \in {} |-> 0]

g_key_file_has(kf, group, key) == <<group, key>> \in DOMAIN kf

g_key_file_get_string(kf, group, key) ==
    IF g_key_file_has(kf, group, key) THEN kf[<<group, key>>] ELSE NULL

(* with a NULL error argument a missing key reads as 0 *)
g_key_file_get_int64(kf, group, key) ==
    IF g_key_file_has(kf, group, key) THEN kf[<<group, key>>] ELSE 0

g_key_file_set(kf, group, key, value) ==
    [x \in (DOMAIN kf) \cup {<<group, key>>} |->
        IF x = <<group, key>> THEN value ELSE kf[x]]

(***************************************************************************)
(* btd-fs-record.c                                                         *)
(***************************************************************************)
btd_btrfs_action_to_string(kind) ==
    IF kind = BTD_BTRFS_ACTION_STATS THEN "stats"
    ELSE IF kind = BTD_BTRFS_ACTION_SCRUB THEN "scrub"
    ELSE IF kind = BTD_BTRFS_ACTION_BALANCE THEN "balance"
    ELSE "unknown"

btd_fs_record_get_last_action_time(state, action_kind) ==
    g_key_file_get_int64(state, "times", btd_btrfs_action_to_string(action_kind))

(* a variant that writes the scheduler's reference time *)
set_last_action_time_reference(state, action_kind, time_now) ==
    g_key_file_set(state, "times", btd_btrfs_action_to_string(action_kind),
                   time_now - ReferenceSlack)

(* time_now is the value of time (NULL) at the call *)
btd_fs_record_set_last_action_time_now(state, action_kind, time_now) ==
    g_key_file_set(state, "times", btd_btrfs_action_to_string(action_kind), time_now)

btd_fs_record_get_value_int(state, group_name, key, default_value) ==
    IF g_key_file_has(state, group_name, key) THEN state[<<group_name, key>>]
    ELSE default_value

btd_fs_record_set_value_int(state, group_name, key, value) ==
    g_key_file_set(state, group_name, key, value)

(* state files: absent, unparsable (with the part read before the bad line),
   or a key file *)
NoFile == [kind |-> "absent"]
CorruptFile(partial) == [kind |-> "corrupt", kf |-> partial]
OkFile(kf) == [kind |-> "ok", kf |-> kf]

(* a parser that gives up everything it read when it meets a bad line *)
KeyFileClearedAfterFailedParse(partial) == EmptyKeyFile

(* priv->state after g_key_file_load_from_file failed: the key file keeps
   the groups and keys read before the line that could not be parsed *)
KeyFileAfterFailedParse(partial) == partial

(* a load that leaves the times of a new record unset *)
btd_fs_record_load_unseeded(f, time_now) ==
    IF f.kind = "ok" THEN [ok |-> TRUE, is_new |-> FALSE, state |-> f.kf]
    ELSE IF f.kind = "corrupt"
    THEN [ok |-> FALSE, is_new |-> FALSE, state |-> KeyFileAfterFailedParse(f.kf)]
    ELSE [ok |-> TRUE, is_new |-> TRUE, state |-> EmptyKeyFile]

(* btd_fs_record_load: the record after loading file f at time time_now *)
btd_fs_record_load(f, time_now) ==
    IF f.kind = "ok" THEN [ok |-> TRUE, is_new |-> FALSE, state |-> f.kf]
    ELSE IF f.kind = "corrupt"
    THEN [ok |-> FALSE, is_new |-> FALSE, state |-> KeyFileAfterFailedParse(f.kf)]
    ELSE [ok |-> TRUE, is_new |-> TRUE,
          state |-> btd_fs_record_set_last_action_time_now(
                        btd_fs_record_set_last_action_time_now(
                            EmptyKeyFile, BTD_BTRFS_ACTION_SCRUB, time_now),
                        BTD_BTRFS_ACTION_BALANCE, time_now)]

(***************************************************************************)
(* btd-filesystem.c                                                        *)
(***************************************************************************)
(* a device number is <<upper 32 bits, lower 32 bits>> *)
btd_filesystem_get_devno(bfs) == bfs.devno

(* the sum of the five counters of one device entry *)
DeviceErrors(d) ==
    d.write_io_errs + d.read_io_errs + d.flush_io_errs + d.corruption_errs
        + d.generation_errs

(* btd_parse_btrfs_device_stats: the value left in *errors_count, which the
   caller initialised to 0 *)
RECURSIVE ParseDeviceStatsFrom(_, _)
ParseDeviceStatsFrom(array, errors_count) ==
    IF array = <<>> THEN errors_count
    ELSE ParseDeviceStatsFrom(Tail(array), DeviceErrors(Head(array)))

btd_parse_btrfs_device_stats(array) == ParseDeviceStatsFrom(array, 0)

(***************************************************************************)
(* btd_parse_btrfs_device_stats: the report                                *)
(***************************************************************************)
(* the text is kept byte by byte; NL is the newline and the bullet U+2022
   is its three bytes in UTF-8 *)
NL == "\n"

T_REGISTERED_DEVICES ==
    <<"R", "e", "g", "i", "s", "t", "e", "r", "e", "d", " ", "D", "e", "v", "i",
      "c", "e", "s", ":", "\n">>

T_ISSUE_REPORT ==
    <<"I", "s", "s", "u", "e", " ", "R", "e", "p", "o", "r", "t", ":", "\n">>

T_BULLET ==
    <<" ", " ", "E2", "80", "A2", " ">>

T_DEVICE ==
    <<"D", "e", "v", "i", "c", "e", ":", " ">>

T_DEVID ==
    <<"D", "e", "v", "i", "d", ":", " ", " ">>

T_WRITE_IO_ERRORS ==
    <<"W", "r", "i", "t", "e", " ", "I", "O", " ", "E", "r", "r", "o", "r", "s",
      ":", " ">>

T_READ_IO_ERRORS ==
    <<"R", "e", "a", "d", " ", "I", "O", " ", "E", "r", "r", "o", "r", "s", ":",
      " ", " ">>

T_FLUSH_IO_ERRORS ==
    <<"F", "l", "u", "s", "h", " ", "I", "O", " ", "E", "r", "r", "o", "r", "s",
      ":", " ">>

T_CORRUPTION_ERRORS ==
    <<"C", "o", "r", "r", "u", "p", "t", "i", "o", "n", " ", "E", "r", "r", "o",
      "r", "s", ":", " ">>

T_GENERATION_ERRORS ==
    <<"G", "e", "n", "e", "r", "a", "t", "i", "o", "n", " ", "E", "r", "r", "o",
      "r", "s", ":", " ">>

T_NO_ERRORS_FOUND ==
    <<" ", " ", "E2", "80", "A2", " ", "N", "o", " ", "e", "r", "r", "o", "r", "s",
      " ", "f", "o", "u", "n", "d", "\n">>

DigitChars == <<"0", "1", "2", "3", "4", "5", "6", "7", "8", "9">>

(* "%" G_GINT64_FORMAT of a counter that is not negative *)
RECURSIVE Decimal(_)
Decimal(n) ==
    IF n < 10 THEN <<DigitChars[n + 1]>>
    ELSE Decimal(n \div 10) \o <<DigitChars[(n % 10) + 1]>>

g_string_prepend(str, val) == val \o str

g_string_truncate(str, len) == SubSeq(str, 1, len)

(* what the loop appends to intro_text for one device *)
DeviceListed(d) == T_BULLET \o d.device \o <<NL>>

(* what the loop appends to issues_text for a device whose counters are not
   all zero *)
DeviceIssues(d) ==
    T_DEVICE \o d.device \o <<NL>>
        \o T_DEVID \o d.devid \o <<NL>>
        \o T_WRITE_IO_ERRORS \o Decimal(d.write_io_errs) \o <<NL>>
        \o T_READ_IO_ERRORS \o Decimal(d.read_io_errs) \o <<NL>>
        \o T_FLUSH_IO_ERRORS \o Decimal(d.flush_io_errs) \o <<NL>>
        \o T_CORRUPTION_ERRORS \o Decimal(d.corruption_errs) \o <<NL>>
        \o T_GENERATION_ERRORS \o Decimal(d.generation_errs) \o <<NL, NL>>

(* the end of btd_parse_btrfs_device_stats: total_errors is what the last
   turn of the loop left in it *)
FinalizeReport(intro_text, issues_text, total_errors) ==
    LET closed == IF total_errors = 0 THEN issues_text \o T_NO_ERRORS_FOUND
                  ELSE issues_text
        whole == g_string_prepend(closed, intro_text \o <<NL>>)
    IN  g_string_truncate(whole, Len(whole) - 2)

(* the loop of btd_parse_btrfs_device_stats over the device entries *)
RECURSIVE ReportFrom(_, _, _, _)
ReportFrom(array, intro_text, issues_text, total_errors) ==
    IF array = <<>> THEN FinalizeReport(intro_text, issues_text, total_errors)
    ELSE LET d == Head(array)
         IN  ReportFrom(Tail(array), intro_text \o DeviceListed(d),
                        IF DeviceErrors(d) = 0 THEN issues_text
                        ELSE issues_text \o DeviceIssues(d),
                        DeviceErrors(d))

(* the text btd_parse_btrfs_device_stats returns *)
DeviceStatsReport(array) == ReportFrom(array, T_REGISTERED_DEVICES, T_ISSUE_REPORT, 0)

(***************************************************************************)
(* btd-logging.c                                                           *)
(***************************************************************************)
LB_SYSLOG == "LB_SYSLOG"
LB_JOURNAL == "LB_JOURNAL"
LB_CONSOLE == "LB_CONSOLE"

BTD_LOG_LEVEL_DEBUG == 0
BTD_LOG_LEVEL_INFO == 1
BTD_LOG_LEVEL_WARNING == 2
BTD_LOG_LEVEL_ERROR == 3
LogLevels == {BTD_LOG_LEVEL_DEBUG, BTD_LOG_LEVEL_INFO, BTD_LOG_LEVEL_WARNING,
              BTD_LOG_LEVEL_ERROR}

(* the value of _log_backend before btd_logging_setup is called *)
InitialLogBackend == LB_CONSOLE

(* the part of btd_logging_setup that is compiled #ifdef HAVE_SYSTEMD *)
BackendWithSystemd(sd_booted) == IF sd_booted <= 0 THEN LB_SYSLOG ELSE LB_JOURNAL

(* _log_backend after btd_logging_setup: is_tty is what isatty says of
   stdout, have_systemd whether HAVE_SYSTEMD was defined for the build,
   sd_booted what sd_booted () returns *)
btd_logging_setup(is_tty, have_systemd, sd_booted) ==
    IF is_tty THEN LB_CONSOLE
    ELSE IF have_systemd THEN BackendWithSystemd(sd_booted)
    ELSE InitialLogBackend

(* whether btd_logging_setup called openlog *)
SyslogOpened(log_backend, is_tty) == ~is_tty /\ log_backend = LB_SYSLOG

LogPriority(level) ==
    IF level = BTD_LOG_LEVEL_INFO THEN "LOG_INFO"
    ELSE IF level = BTD_LOG_LEVEL_WARNING THEN "LOG_WARNING"
    ELSE IF level = BTD_LOG_LEVEL_ERROR THEN "LOG_ERR"
    ELSE "LOG_DEBUG"

ConsoleCall(level) ==
    IF level = BTD_LOG_LEVEL_INFO THEN "g_print I:"
    ELSE IF level = BTD_LOG_LEVEL_WARNING THEN "g_print W:"
    ELSE IF level = BTD_LOG_LEVEL_ERROR THEN "g_critical"
    ELSE "g_debug"

(* btd_log_va: where a message of the level goes, and how *)
btd_log_va(log_backend, have_systemd, level) ==
    IF log_backend = LB_CONSOLE THEN [to |-> "console", as |-> ConsoleCall(level)]
    ELSE IF have_systemd /\ log_backend = LB_JOURNAL
    THEN [to |-> "journal", as |-> LogPriority(level)]
    ELSE [to |-> "syslog", as |-> LogPriority(level)]

(***************************************************************************)
(* btd-scheduler.c: decisions                                              *)
(***************************************************************************)
DefaultGroup == <<"d", "e", "f", "a", "u", "l", "t">>

btd_get_interval_key(action_kind) ==
    IF action_kind = BTD_BTRFS_ACTION_STATS THEN "stats_interval"
    ELSE IF action_kind = BTD_BTRFS_ACTION_SCRUB THEN "scrub_interval"
    ELSE "balance_interval"

btd_scheduler_get_config_duration_str(cfg, group, key, default_value) ==
    LET value == g_key_file_get_string(cfg, group, key)
    IN  IF value = NULL THEN btd_parse_duration_string(default_value)
        ELSE btd_parse_duration_string(value)

(* a lookup that does not read the section of the mountpoint *)
get_config_duration_default_only(cfg, group, key, default_value) == default_value

btd_scheduler_get_config_duration(cfg, group, key, default_value) ==
    LET value == g_key_file_get_string(cfg, group, key)
    IN  IF value = NULL THEN default_value
        ELSE btd_parse_duration_string(value)

btd_scheduler_get_config_duration_for_action(cfg, defaults, bfs, action_kind) ==
    btd_scheduler_get_config_duration(cfg, bfs.mountpoint,
                                      btd_get_interval_key(action_kind),
                                      defaults[action_kind])

btd_scheduler_get_config_value(cfg, bfs, key, default_value) ==
    LET value == g_key_file_get_string(cfg, bfs.mountpoint, key)
        generic == g_key_file_get_string(cfg, DefaultGroup, key)
    IN  IF value # NULL THEN value
        ELSE IF generic # NULL THEN generic
        ELSE default_value

(* a table in which every action may run on battery *)
allow_on_battery_always(action_kind) == TRUE

(* the action_fn table of btd_scheduler_run_for_mount *)
allow_on_battery(action_kind) == action_kind = BTD_BTRFS_ACTION_STATS

(* a disabled test that lets a zero interval through *)
ActionIsNeverDisabled(interval_time) == FALSE

(* the disabled test of btd_scheduler_run_for_mount *)
ActionIsDisabled(interval_time) == interval_time = 0

(* a due test that takes an action at the end of its interval *)
ActionIsDueInclusive(ref, last_time, interval_time) == ref - last_time >= interval_time

(* the due test of btd_scheduler_run_for_mount *)
ActionIsDue(ref, last_time, interval_time) == ref - last_time > interval_time

(* a handler result that is recorded whatever the handler returned *)
RecordAfterAlways(r, action_kind, time_now) ==
    btd_fs_record_set_last_action_time_now(r.state, action_kind, time_now)

(* the record after a handler returned r: the action is recorded as run if
   the handler did not fail to launch *)
RecordAfter(r, action_kind, time_now) ==
    IF r.ret
    THEN btd_fs_record_set_last_action_time_now(r.state, action_kind, time_now)
    ELSE r.state

(* a broadcast test that fires at the end of the window *)
BroadcastIsDueInclusive(error_count, prev_error_count, ref, broadcast_sent) ==
    error_count > prev_error_count \/ ref - broadcast_sent >= BroadcastWindow

(* the broadcast test of btd_scheduler_run_stats *)
BroadcastIsDue(error_count, prev_error_count, ref, broadcast_sent) ==
    error_count > prev_error_count \/ ref - broadcast_sent > BroadcastWindow

(* an early return that still suppresses at the end of the window *)
MailIsSuppressedInclusive(new_errors_found, ref, time_last_mail) ==
    ~new_errors_found /\ (ref - time_last_mail) <= MailWindow

(* the early return of btd_scheduler_send_error_mail *)
MailIsSuppressed(new_errors_found, ref, time_last_mail) ==
    ~new_errors_found /\ (ref - time_last_mail) < MailWindow

(* a comparison that sorts the mountpoints backwards *)
btd_filesystem_compare_reversed(fs_a, fs_b) ==
    g_strcmp0(fs_b.mountpoint, fs_a.mountpoint)

btd_filesystem_compare(fs_a, fs_b) == g_strcmp0(fs_a.mountpoint, fs_b.mountpoint)

(* a cast through a long of 32 bits, which keeps the lower half only *)
GUINT_TO_POINTER_LONG32(devno) == <<0, devno[2]>>

(* GUINT_TO_POINTER is ((gpointer) (gulong) (u)): where long has 64 bits
   the pointer carries both halves of a dev_t *)
GUINT_TO_POINTER(devno) == <<devno[1], devno[2]>>

(* a set that forgets what is added to it *)
g_hash_table_add_nothing(hash_table, key) == hash_table

(* g_hash_table_add on a table used as a set of keys *)
g_hash_table_add(hash_table, key) == hash_table \cup {key}

(* g_hash_table_contains under g_direct_hash and g_direct_equal *)
g_hash_table_contains(hash_table, key) == key \in hash_table

(***************************************************************************)
(* btd-scheduler.c: the handlers                                           *)
(***************************************************************************)
(* the error-mail template is compiled into the binary *)
btd_get_resource_data_found == TRUE

(* a failed send that is recorded as a mail sent *)
MailNotSentRecorded(state, ref) ==
    btd_fs_record_set_value_int(state, "messages", "issue_mail_sent", ref)

(* the record when btd_send_email failed: the function returns before it
   records anything *)
MailNotSent(state, ref) == state

(* btd_scheduler_send_error_mail; send is the outcome of btd_send_email *)
btd_scheduler_send_error_mail(state, ref, new_errors_found, send) ==
    LET time_last_mail == btd_fs_record_get_value_int(state, "messages", "issue_mail_sent", 0)
    IN  IF MailIsSuppressed(new_errors_found, ref, time_last_mail)
        THEN [ret |-> TRUE, state |-> state, mail |-> "suppressed"]
        ELSE IF ~btd_get_resource_data_found
        THEN [ret |-> FALSE, state |-> state, mail |-> "no_template"]
        ELSE IF send # "sent"
        THEN [ret |-> FALSE, state |-> MailNotSent(state, ref), mail |-> "failed"]
        ELSE [ret |-> TRUE,
              state |-> btd_fs_record_set_value_int(state, "messages", "issue_mail_sent", ref),
              mail |-> "sent"]

(* a failed read that forgets the errors counted before *)
StatsReadFailedCleared(state) == btd_fs_record_set_value_int(state, "errors", "total", 0)

(* the record when btd_filesystem_read_error_stats failed: the handler
   returns before it touches it *)
StatsReadFailed(state) == state

(* a clean report that leaves the stored count alone *)
StatsNoErrorsKept(state) == state

(* the record when no errors were found *)
StatsNoErrors(state) == btd_fs_record_set_value_int(state, "errors", "total", 0)

(* a handler that mails whatever the address is *)
MailIsAlwaysConfigured(mail_address) == TRUE

MailIsConfigured(mail_address) == ~btd_is_empty(mail_address)

(* a handler to which no error is new *)
ErrorsAreNeverIncreasing(error_count, prev_error_count) == FALSE

(* new_errors_found as btd_scheduler_run_stats passes it on: true if the
   error amount is increasing *)
ErrorsAreIncreasing(error_count, prev_error_count) == error_count > prev_error_count

(* btd_broadcast_message returns nothing: whether it wrote to any terminal
   is not known to its caller *)
btd_broadcast_message(wall) == TRUE

(* btd_scheduler_run_stats; read is the outcome of
   btd_filesystem_read_error_stats, wall what btd_broadcast_message met,
   send the outcome of btd_send_email *)
btd_scheduler_run_stats(state, ref, cfg, bfs, read, wall, send) ==
    LET raw_address == btd_scheduler_get_config_value(cfg, bfs, "mail_address", NULL)
        mail_address == IF raw_address # NULL THEN g_strstrip(raw_address) ELSE NULL
        error_count == btd_parse_btrfs_device_stats(read.array)
        prev_error_count == btd_fs_record_get_value_int(state, "errors", "total", 0)
        broadcast_sent == btd_fs_record_get_value_int(state, "messages", "broadcast_sent", 0)
        mail_sent == btd_fs_record_get_value_int(state, "messages", "issue_mail_sent", 0)
        counted == btd_fs_record_set_value_int(state, "errors", "total", error_count)
        broadcast == BroadcastIsDue(error_count, prev_error_count, ref, broadcast_sent)
        told == IF broadcast /\ btd_broadcast_message(wall)
                THEN btd_fs_record_set_value_int(counted, "messages", "broadcast_sent", ref)
                ELSE counted
        mailed == btd_scheduler_send_error_mail(told, ref,
                                                ErrorsAreIncreasing(error_count,
                                                                    prev_error_count),
                                                send)
        seen(read_ok, total, after, did_broadcast, mail) ==
            [read_ok |-> read_ok, total |-> total, prev |-> prev_error_count,
             broadcast_before |-> broadcast_sent, mail_before |-> mail_sent,
             broadcast_after |->
                 btd_fs_record_get_value_int(after, "messages", "broadcast_sent", 0),
             mail_after |->
                 btd_fs_record_get_value_int(after, "messages", "issue_mail_sent", 0),
             total_after |-> btd_fs_record_get_value_int(after, "errors", "total", 0),
             address |-> mail_address, broadcast |-> did_broadcast, mail |-> mail,
             devices |-> read.array, why |-> read.why,
             wall |-> IF did_broadcast THEN wall ELSE "none",
             send |-> IF mail \in {"failed", "sent"} THEN send ELSE "none"]
        failed == StatsReadFailed(state)
        cleared == StatsNoErrors(state)
    IN  IF ~read.ok
        THEN [ret |-> FALSE, state |-> failed,
              h |-> seen(FALSE, 0, failed, FALSE, "none")]
        ELSE IF error_count = 0
        THEN [ret |-> TRUE, state |-> cleared,
              h |-> seen(TRUE, error_count, cleared, FALSE, "none")]
        ELSE IF ~MailIsConfigured(mail_address)
        THEN [ret |-> TRUE, state |-> told,
              h |-> seen(TRUE, error_count, told, broadcast, "unconfigured")]
        ELSE [ret |-> mailed.ret, state |-> mailed.state,
              h |-> seen(TRUE, error_count, mailed.state, broadcast, mailed.mail)]

(* btd_scheduler_run_scrub and btd_scheduler_run_balance; spawn is the
   outcome of btd_filesystem_scrub or btd_filesystem_balance *)
btd_scheduler_run_scrub(state, spawn) ==
    [ret |-> spawn = "ok", state |-> state, h |-> [spawn |-> spawn]]

btd_scheduler_run_balance(state, spawn) ==
    [ret |-> spawn = "ok", state |-> state, h |-> [spawn |-> spawn]]

(***************************************************************************)
(* State                                                                   *)
(***************************************************************************)
VARIABLES
    now,                \* the wall clock, time (NULL)
    on_battery,         \* what btd_machine_is_on_battery would return
    uid,                \* getuid ()
    euid,               \* geteuid ()
    mtab,               \* the kernel mount table and its btrfs entries
    config_file,        \* /etc/btrfsd/settings.conf
    files,              \* the state directory: file name -> state file
    env,                \* what the environment of this run can do
    pc,                 \* where the process is
    loaded,             \* priv->loaded
    reference_time,     \* priv->reference_time
    mountpoints,        \* priv->mountpoints
    config,             \* priv->config
    default_intervals,  \* priv->default_intervals
    known_devices,      \* known_devices of btd_scheduler_run
    idx,                \* i of the mount loop of btd_scheduler_run
    act,                \* action_fn[i].action of the loop of btd_scheduler_run_for_mount
    record,             \* the BtdFsRecord of btd_scheduler_run_for_mount
    ret,                \* what the last call of load or run returned
    log,                \* what this invocation did so far
    pre_files,          \* the state directory when this invocation started
    start_time,         \* the wall clock when this invocation started
    prev,               \* start time and decisions of the invocation before this one
    invocations,        \* invocations started so far
    call,               \* the utility function called, with its arguments
    result              \* what that call returned

vars == <<now, on_battery, uid, euid, mtab, config_file, files, env, pc, loaded,
          reference_time, mountpoints, config, default_intervals, known_devices,
          idx, act, record, ret, log, pre_files, start_time, prev, invocations,
          call, result>>

utilVars == <<call, result>>
envVars == <<uid, euid, mtab, config_file, env, utilVars>>
schedVars == <<loaded, reference_time, mountpoints, config, default_intervals>>
histVars == <<pre_files, start_time, prev, invocations>>

Unreadable == [ok |-> FALSE, fs |-> <<>>]
MountTable(fs) == [ok |-> TRUE, fs |-> fs]
NoRecord == [mountpoint |-> NULL, state |-> EmptyKeyFile, is_new |-> FALSE]
NoPrev == [start |-> 0, considered |-> {}, seeded |-> {}, stats |-> {}]

Mount(mp, devno) == [mountpoint |-> mp, devno |-> devno]

(* the last-run times a record holds *)
TimesOf(state) == [a \in Actions |-> btd_fs_record_get_last_action_time(state, a)]

(***************************************************************************)
(* btd_scheduler_load                                                      *)
(***************************************************************************)
(* a reference time a minute ahead of the clock *)
ReferenceTimeAhead(time_now) == time_now + ReferenceSlack

(* priv->reference_time of btd_scheduler_load: a minute behind the clock *)
ReferenceTime(time_now) == time_now - ReferenceSlack

(* the private fields after the body of btd_scheduler_load ran unloaded *)
LoadOutcome ==
    LET ref == ReferenceTime(now)
        cfg == IF config_file.kind = "absent" THEN config ELSE config_file.kf
        interval(a, dflt) ==
            btd_scheduler_get_config_duration_str(cfg, DefaultGroup,
                                                  btd_get_interval_key(a), dflt)
    IN  IF ~mtab.ok
        THEN [ok |-> FALSE, err |-> "mount_table", loaded |-> FALSE,
              reference_time |-> ref, mountpoints |-> <<>>, config |-> config,
              default_intervals |-> default_intervals]
        ELSE IF config_file.kind = "corrupt"
        THEN [ok |-> FALSE, err |-> "config", loaded |-> FALSE,
              reference_time |-> ref, mountpoints |-> mtab.fs, config |-> cfg,
              default_intervals |-> default_intervals]
        ELSE [ok |-> TRUE, err |-> "none", loaded |-> TRUE,
              reference_time |-> ref, mountpoints |-> mtab.fs, config |-> cfg,
              default_intervals |->
                  [a \in Actions |->
                      IF a = BTD_BTRFS_ACTION_SCRUB THEN interval(a, <<"1", "M">>)
                      ELSE IF a = BTD_BTRFS_ACTION_STATS THEN interval(a, <<"1", "h">>)
                      ELSE interval(a, <<"n", "e", "v", "e", "r">>)]]

(* a load without the guard against a second call *)
btd_scheduler_load_unguarded ==
    /\ pc \in {"new", "loaded"}
    /\ LET o == LoadOutcome
       IN  /\ ret' = [call |-> "load", ok |-> o.ok, err |-> o.err]
           /\ loaded' = o.loaded
           /\ reference_time' = o.reference_time
           /\ mountpoints' = o.mountpoints
           /\ config' = o.config
           /\ default_intervals' = o.default_intervals
           /\ pc' = IF o.ok THEN "loaded" ELSE "failed"
    /\ UNCHANGED <<now, on_battery, envVars, files, known_devices, idx, act, record,
                   log, histVars>>

btd_scheduler_load ==
    /\ pc \in {"new", "loaded"}
    /\ IF loaded
       THEN /\ ret' = [call |-> "load", ok |-> FALSE, err |-> "already_initialized"]
            /\ UNCHANGED <<pc, schedVars>>
       ELSE LET o == LoadOutcome
            IN  /\ ret' = [call |-> "load", ok |-> o.ok, err |-> o.err]
                /\ loaded' = o.loaded
                /\ reference_time' = o.reference_time
                /\ mountpoints' = o.mountpoints
                /\ config' = o.config
                /\ default_intervals' = o.default_intervals
                /\ pc' = IF o.ok THEN "loaded" ELSE "failed"
    /\ UNCHANGED <<now, on_battery, envVars, files, known_devices, idx, act, record,
                   log, histVars>>

(***************************************************************************)
(* btd_scheduler_run                                                       *)
(***************************************************************************)
(* a check that lets every user through *)
user_is_always_root == TRUE

btd_user_is_root == uid = 0

IndexPermutations(n) == {f \in [1..n -> 1..n] : \A i, j \in 1..n : f[i] = f[j] => i = j}

(* a sort that leaves the array as the mount table listed it *)
g_ptr_array_unsorted(array) == {array}

(* the arrays g_ptr_array_sort may leave: qsort keeps no order among equals *)
g_ptr_array_sort(array) ==
    {[i \in 1..Len(array) |-> array[f[i]]] : f \in
        {g \in IndexPermutations(Len(array)) :
            \A i, j \in 1..Len(array) :
                i < j => btd_filesystem_compare(array[g[i]], array[g[j]]) <= 0}}

(* btd_scheduler_run up to its loop *)
btd_scheduler_run ==
    /\ pc \in {"new", "loaded"}
    /\ LET o == IF loaded
                THEN [ok |-> TRUE, err |-> "none", loaded |-> loaded,
                      reference_time |-> reference_time, mountpoints |-> mountpoints,
                      config |-> config, default_intervals |-> default_intervals]
                ELSE LoadOutcome
       IN  /\ loaded' = o.loaded
           /\ reference_time' = o.reference_time
           /\ config' = o.config
           /\ default_intervals' = o.default_intervals
           /\ IF ~o.ok
              THEN /\ ret' = [call |-> "run", ok |-> FALSE, err |-> o.err]
                   /\ mountpoints' = o.mountpoints
                   /\ pc' = "failed"
              ELSE IF ~btd_user_is_root
              THEN /\ ret' = [call |-> "run", ok |-> FALSE, err |-> "not_root"]
                   /\ mountpoints' = o.mountpoints
                   /\ pc' = "failed"
              ELSE IF Len(o.mountpoints) = 0
              THEN /\ ret' = [call |-> "run", ok |-> TRUE, err |-> "none"]
                   /\ mountpoints' = o.mountpoints
                   /\ pc' = "done"
              ELSE /\ ret' = [call |-> "run", ok |-> FALSE, err |-> "running"]
                   /\ mountpoints' \in g_ptr_array_sort(o.mountpoints)
                   /\ pc' = "mounts"
    /\ known_devices' = {}
    /\ idx' = 1
    /\ UNCHANGED <<now, on_battery, envVars, files, act, record, log, histVars>>

(* the loop of btd_scheduler_run: a mount of a device already handled *)
SkipKnownDevice ==
    /\ pc = "mounts"
    /\ idx <= Len(mountpoints)
    /\ LET bfs == mountpoints[idx]
           devno == btd_filesystem_get_devno(bfs)
       IN  /\ g_hash_table_contains(known_devices, GUINT_TO_POINTER(devno))
           /\ log' = Append(log, [ev |-> "skip", mp |-> bfs.mountpoint, devno |-> devno])
    /\ idx' = idx + 1
    /\ UNCHANGED <<now, on_battery, envVars, files, pc, schedVars, known_devices, act,
                   record, ret, histVars>>

(* the loop of btd_scheduler_run: a new device; btd_scheduler_run_for_mount
   up to its loop *)
BeginMount ==
    /\ pc = "mounts"
    /\ idx <= Len(mountpoints)
    /\ LET bfs == mountpoints[idx]
           devno == btd_filesystem_get_devno(bfs)
           l == btd_fs_record_load(files[btd_fs_record_get_state_filename(bfs.mountpoint)],
                                   now)
       IN  /\ ~g_hash_table_contains(known_devices, GUINT_TO_POINTER(devno))
           /\ known_devices' = g_hash_table_add(known_devices, GUINT_TO_POINTER(devno))
           /\ record' = [mountpoint |-> bfs.mountpoint, state |-> l.state,
                         is_new |-> l.is_new]
           /\ log' = Append(log, [ev |-> "pipeline", mp |-> bfs.mountpoint,
                                  devno |-> devno, load_ok |-> l.ok, at |-> now,
                                  is_new |-> l.is_new, times |-> TimesOf(l.state)])
    /\ act' = BTD_BTRFS_ACTION_STATS
    /\ pc' = "actions"
    /\ UNCHANGED <<now, on_battery, envVars, files, schedVars, idx, ret, histVars>>

(* btd_scheduler_run returns after the loop *)
RunReturn ==
    /\ pc = "mounts"
    /\ idx > Len(mountpoints)
    /\ pc' = "done"
    /\ ret' = [call |-> "run", ok |-> TRUE, err |-> "none"]
    /\ UNCHANGED <<now, on_battery, envVars, files, schedVars, known_devices, idx, act,
                   record, log, histVars>>

(***************************************************************************)
(* btd_scheduler_run_for_mount: one turn of the loop over action_fn        *)
(***************************************************************************)
CurrentMount == mountpoints[idx]

interval_time ==
    btd_scheduler_get_config_duration_for_action(config, default_intervals,
                                                 CurrentMount, act)

last_time == btd_fs_record_get_last_action_time(record.state, act)

(* after is the record as the turn of the loop leaves it *)
Consider(verdict, launched, at, h, after) ==
    [ev |-> "consider", mp |-> CurrentMount.mountpoint, action |-> act,
     interval |-> interval_time, last |-> last_time, ref |-> reference_time,
     power |-> on_battery, verdict |-> verdict, launched |-> launched,
     began |-> now, at |-> at,
     stamp |-> btd_fs_record_get_last_action_time(after, act), h |-> h]

InLoop == pc = "actions" /\ act < BTD_BTRFS_ACTION_LAST

SkipDisabled ==
    /\ InLoop
    /\ ActionIsDisabled(interval_time)
    /\ log' = Append(log, Consider("disabled", FALSE, 0, <<>>, record.state))
    /\ act' = act + 1
    /\ UNCHANGED <<now, on_battery, envVars, files, pc, schedVars, known_devices, idx,
                   record, ret, histVars>>

SkipNotDue ==
    /\ InLoop
    /\ ~ActionIsDisabled(interval_time)
    /\ ~ActionIsDue(reference_time, last_time, interval_time)
    /\ log' = Append(log, Consider("not_due", FALSE, 0, <<>>, record.state))
    /\ act' = act + 1
    /\ UNCHANGED <<now, on_battery, envVars, files, pc, schedVars, known_devices, idx,
                   record, ret, histVars>>

(* a skip that counts as a run *)
SkippedOnBatteryStamped(state, action_kind, time_now) ==
    btd_fs_record_set_last_action_time_now(state, action_kind, time_now)

(* the record after the continue of an action that is due on battery power:
   nothing is written to it *)
SkippedOnBattery(state, action_kind, time_now) == state

SkipOnBattery ==
    /\ InLoop
    /\ ~ActionIsDisabled(interval_time)
    /\ ActionIsDue(reference_time, last_time, interval_time)
    /\ ~allow_on_battery(act) /\ on_battery
    /\ record' = [record EXCEPT !.state = SkippedOnBattery(record.state, act, now)]
    /\ log' = Append(log, Consider("battery", FALSE, 0, <<>>,
                                   SkippedOnBattery(record.state, act, now)))
    /\ act' = act + 1
    /\ UNCHANGED <<now, on_battery, envVars, files, pc, schedVars, known_devices, idx,
                   ret, histVars>>

MayRun ==
    /\ InLoop
    /\ ~ActionIsDisabled(interval_time)
    /\ ActionIsDue(reference_time, last_time, interval_time)
    /\ ~(~allow_on_battery(act) /\ on_battery)

(* a state directory that is written whenever a timestamp is set *)
StateFilesAfterActionSaved(dir, mountpoint, state) ==
    [dir EXCEPT ![btd_fs_record_get_state_filename(mountpoint)] = OkFile(state)]

(* the handlers and btd_fs_record_set_last_action_time_now change the key
   file in memory only *)
StateFilesAfterAction(dir, mountpoint, state) == dir

(* a loop that gives up the remaining actions when a handler failed *)
NextActionUnlessFailed(r, action_kind) ==
    IF r.ret THEN action_kind + 1 ELSE BTD_BTRFS_ACTION_LAST

(* the loop over action_fn goes on to the next entry whatever the handler
   returned *)
NextAction(r, action_kind) == action_kind + 1

(* the handler returned r after taking d seconds *)
Ran(r, d) ==
    /\ now' = now + d
    /\ record' = [record EXCEPT !.state = RecordAfter(r, act, now + d)]
    /\ files' = StateFilesAfterAction(files, record.mountpoint,
                                      RecordAfter(r, act, now + d))
    /\ log' = Append(log, Consider("invoked", r.ret, IF r.ret THEN now + d ELSE 0, r.h,
                                   RecordAfter(r, act, now + d)))
    /\ act' = NextAction(r, act)
    /\ UNCHANGED <<on_battery, envVars, pc, schedVars, known_devices, idx, ret, histVars>>

RunStats ==
    /\ MayRun
    /\ act = BTD_BTRFS_ACTION_STATS
    /\ \E read \in env.reads, wall \in env.walls, send \in env.sends,
          d \in env.elapsed :
           Ran(btd_scheduler_run_stats(record.state, reference_time, config,
                                       CurrentMount, read, wall, send), d)

RunScrub ==
    /\ MayRun
    /\ act = BTD_BTRFS_ACTION_SCRUB
    /\ \E spawn \in env.spawns, d \in env.elapsed :
           Ran(btd_scheduler_run_scrub(record.state, spawn), d)

RunBalance ==
    /\ MayRun
    /\ act = BTD_BTRFS_ACTION_BALANCE
    /\ \E spawn \in env.spawns, d \in env.elapsed :
           Ran(btd_scheduler_run_balance(record.state, spawn), d)

(* a save that writes the record under every mountpoint *)
fs_record_save_everywhere(dir, mountpoint, state) == [f \in DOMAIN dir |-> OkFile(state)]

(* the state directory after btd_fs_record_save wrote the key file of the
   record to the file named after its mountpoint *)
btd_fs_record_save(dir, mountpoint, state) ==
    [dir EXCEPT ![btd_fs_record_get_state_filename(mountpoint)] = OkFile(state)]

(* a loop that stops at a filesystem whose record was not saved *)
ContinueAfterMountIfSaved(saved) == saved

(* the loop of btd_scheduler_run goes on whatever btd_scheduler_run_for_mount
   met: that function returns TRUE and its result is not looked at *)
ContinueAfterMount(saved) == TRUE

(* btd_scheduler_run_for_mount after its loop: btd_fs_record_save *)
SaveRecord ==
    /\ pc = "actions"
    /\ act = BTD_BTRFS_ACTION_LAST
    /\ \E saved \in env.saves :
           /\ files' = IF saved
                       THEN btd_fs_record_save(files, record.mountpoint, record.state)
                       ELSE files
           /\ log' = Append(log, [ev |-> "save", mp |-> record.mountpoint, ok |-> saved,
                                  times |-> TimesOf(record.state)])
           /\ IF ContinueAfterMount(saved)
              THEN pc' = "mounts" /\ ret' = ret
              ELSE pc' = "failed" /\ ret' = [call |-> "run", ok |-> FALSE, err |-> "mount"]
    /\ record' = NoRecord
    /\ idx' = idx + 1
    /\ UNCHANGED <<now, on_battery, envVars, schedVars, known_devices, act, histVars>>

(***************************************************************************)
(* The environment                                                         *)
(***************************************************************************)
(* the machine is plugged in or unplugged *)
PowerChange ==
    /\ pc = "actions"
    /\ (~on_battery) \in env.power
    /\ on_battery' = ~on_battery
    /\ UNCHANGED <<now, envVars, files, pc, schedVars, known_devices, idx, act, record,
                   ret, log, histVars>>

(* time passes between a load() and the next call *)
Wait ==
    /\ pc = "loaded"
    /\ now = start_time
    /\ \E d \in env.waits : now' = now + d
    /\ UNCHANGED <<on_battery, envVars, files, pc, schedVars, known_devices, idx, act,
                   record, ret, log, histVars>>

(* the mount tables the next invocation may find: the one this invocation
   found, or that one with a mounted filesystem mounted at one more place *)
MountTablesAfter(table, mounts) ==
    {table} \cup
    {MountTable(Append(table.fs, m)) : m \in
        {x \in mounts :
            /\ \A i \in 1..Len(table.fs) : table.fs[i] # x
            /\ \E i \in 1..Len(table.fs) : table.fs[i].devno = x.devno}}

(* the process has exited; the timer starts the next one gap seconds after it
   started this one, and filesystems may have been mounted in between *)
NextInvocation ==
    /\ pc \in {"done", "failed"}
    /\ invocations < env.invocations
    /\ \E gap \in env.gaps :
           /\ start_time + gap >= now
           /\ now' = start_time + gap
           /\ start_time' = start_time + gap
    /\ prev' = [start |-> start_time,
                considered |->
                    {[mp |-> log[i].mp, action |-> log[i].action,
                      interval |-> log[i].interval, last |-> log[i].last,
                      verdict |-> log[i].verdict,
                      launched |-> log[i].launched, at |-> log[i].at] :
                        i \in {j \in 1..Len(log) : log[j].ev = "consider"}},
                seeded |->
                    {[mp |-> log[i].mp, at |-> log[i].at] :
                        i \in {j \in 1..Len(log) :
                                  /\ log[j].ev = "pipeline" /\ log[j].is_new
                                  /\ log[j + BTD_BTRFS_ACTION_LAST].ok}},
                stats |->
                    {[mp |-> log[i].mp, read_ok |-> log[i].h.read_ok,
                      total |-> log[i].h.total, before |-> log[i].h.prev,
                      mail |-> log[i].h.mail, ref |-> log[i].ref,
                      saved |-> log[i - log[i].action + BTD_BTRFS_ACTION_LAST].ok] :
                        i \in {j \in 1..Len(log) :
                                  /\ log[j].ev = "consider"
                                  /\ log[j].action = BTD_BTRFS_ACTION_STATS
                                  /\ log[j].verdict = "invoked"}}]
    /\ on_battery' \in env.power_at_start
    /\ invocations' = invocations + 1
    /\ pre_files' = files
    /\ log' = <<>>
    /\ pc' = "new"
    /\ loaded' = FALSE
    /\ reference_time' = 0
    /\ mountpoints' = <<>>
    /\ config' = EmptyKeyFile
    /\ default_intervals' = [a \in Actions |-> SECONDS_IN_A_MONTH]
    /\ known_devices' = {}
    /\ idx' = 1
    /\ act' = BTD_BTRFS_ACTION_STATS
    /\ record' = NoRecord
    /\ ret' = [call |-> "none", ok |-> TRUE, err |-> "none"]
    /\ mtab' \in MountTablesAfter(mtab, env.mounts)
    /\ UNCHANGED <<uid, euid, config_file, env, utilVars, files>>

Next ==
    \/ btd_scheduler_load
    \/ btd_scheduler_run
    \/ SkipKnownDevice
    \/ BeginMount
    \/ RunReturn
    \/ SkipDisabled
    \/ SkipNotDue
    \/ SkipOnBattery
    \/ RunStats
    \/ RunScrub
    \/ RunBalance
    \/ SaveRecord
    \/ PowerChange
    \/ Wait
    \/ NextInvocation

(***************************************************************************)
(* Bounds and the inputs drawn within them                                 *)
(***************************************************************************)
MaxMounts == 3
MaxTwinMounts == 2
MaxDevices == 2
MaxCounter == 1
MaxInvocations == 2
ElapsedStep == 30
StartOfTime == 1700000000

MP_ROOT == <<"/">>
MP_A == <<"/", "a">>
MP_B == <<"/", "b">>
Mountpoints == {MP_ROOT, MP_A, MP_B}

DEV_42 == <<0, 42>>
DEV_77 == <<0, 77>>
DEV_42_HIGH == <<1, 42>>
Devnos == {DEV_42, DEV_77, DEV_42_HIGH}

AllMounts == {Mount(mp, d) : mp \in Mountpoints, d \in Devnos}

SeqsUpTo(S, n) == UNION {[1..k -> S] : k \in 0..n}

(* mounts of two devices whose numbers differ in their lower 32 bits *)
PlainMounts == {Mount(mp, d) : mp \in Mountpoints, d \in {DEV_42, DEV_77}}

(* up to MaxMounts mounts of the two devices, and up to MaxTwinMounts mounts
   when a device whose number differs only in its upper 32 bits is among
   them *)
MountTables == SeqsUpTo(PlainMounts, MaxMounts) \cup SeqsUpTo(AllMounts, MaxTwinMounts)

DeviceEntry(w, c) ==
    [write_io_errs |-> w, read_io_errs |-> 0, flush_io_errs |-> 0,
     corruption_errs |-> c, generation_errs |-> 0]

DeviceEntries == {DeviceEntry(w, c) : w \in 0..MaxCounter, c \in 0..MaxCounter}

ReadOk(array) == [ok |-> TRUE, why |-> "none", array |-> array]
ReadFailed(why) == [ok |-> FALSE, why |-> why, array |-> <<>>]

ReadFailures ==
    {ReadFailed(w) : w \in {"spawn_failed", "command_failed", "parse_error",
                            "no_device_stats"}}
ReadSuccesses == {ReadOk(a) : a \in SeqsUpTo(DeviceEntries, MaxDevices)}
CleanRead == ReadOk(<<DeviceEntry(0, 0)>>)

(* reports of devices that are clean or have MaxCounter write errors *)
PlainReads ==
    {ReadOk(a) : a \in SeqsUpTo({DeviceEntry(0, 0), DeviceEntry(MaxCounter, 0)},
                                MaxDevices)}

SendOutcomes == {"sent", "no_sendmail", "spawn_failed", "exit_nonzero"}
SpawnOutcomes == {"ok", "spawn_failed", "exit_nonzero"}

(* what btd_broadcast_message can meet: a terminal of a logged-in user it
   could write to, or none *)
WallOutcomes == {"written", "no_terminal"}

(* an environment in which nothing fails and nothing takes time *)
QuietEnv ==
    [reads |-> {CleanRead}, walls |-> {"written"}, sends |-> {"sent"},
     spawns |-> {"ok"}, saves |-> {TRUE},
     elapsed |-> {0}, power |-> {FALSE}, power_at_start |-> {}, gaps |-> {},
     waits |-> {}, mounts |-> {}, invocations |-> 1]

FileNames == {btd_fs_record_get_state_filename(mp) : mp \in Mountpoints}

NoFiles == [f \in FileNames |-> NoFile]

FilesWith(mp, f) == [NoFiles EXCEPT ![btd_fs_record_get_state_filename(mp)] = f]

(* a key file from a function that gives 0 or NULL to the keys left out *)
KeyFileOf(entries, none) ==
    [x \in {y \in DOMAIN entries : entries[y] # none} |-> entries[x]]

TimesRecord(stats, scrub, balance) ==
    KeyFileOf([x \in {<<"times", "stats">>, <<"times", "scrub">>, <<"times", "balance">>} |->
                  IF x[2] = "stats" THEN stats ELSE IF x[2] = "scrub" THEN scrub
                  ELSE balance], 0)

MessagesRecord(total, broadcast_sent, issue_mail_sent) ==
    KeyFileOf([x \in {<<"errors", "total">>, <<"messages", "broadcast_sent">>,
                      <<"messages", "issue_mail_sent">>} |->
                  IF x[2] = "total" THEN total
                  ELSE IF x[2] = "broadcast_sent" THEN broadcast_sent
                  ELSE issue_mail_sent], 0)

ConfigFile(kf) == OkFile(kf)

S_NEVER == <<"n", "e", "v", "e", "r">>
S_1D == <<"1", "d">>
S_2H == <<"2", "h">>
S_2U == <<"2", "u">>
S_ADDRESS == <<"r", "@", "b">>
S_BLANK == <<" ">>

FirstRef == StartOfTime - ReferenceSlack

(* last-run times around the point where an action becomes due *)
AroundDue(interval) == {0, FirstRef - interval, FirstRef - interval - 1}

NoCall == [fn |-> "none"]
Pending == <<>>

Quiescent ==
    /\ now = StartOfTime
    /\ start_time = StartOfTime
    /\ pc = "new"
    /\ loaded = FALSE
    /\ reference_time = 0
    /\ mountpoints = <<>>
    /\ config = EmptyKeyFile
    /\ default_intervals = [a \in Actions |-> SECONDS_IN_A_MONTH]
    /\ known_devices = {}
    /\ idx = 1
    /\ act = BTD_BTRFS_ACTION_STATS
    /\ record = NoRecord
    /\ ret = [call |-> "none", ok |-> TRUE, err |-> "none"]
    /\ log = <<>>
    /\ pre_files = files
    /\ prev = NoPrev
    /\ invocations = 1

Common ==
    /\ Quiescent
    /\ call = NoCall
    /\ result = Pending

(* any mount table, in a quiet environment *)
InitMounts ==
    /\ mtab \in {MountTable(t) : t \in MountTables} \cup {Unreadable}
    /\ uid \in {0, 1000}
    /\ euid = uid
    /\ config_file = NoFile
    /\ files = NoFiles
    /\ on_battery = FALSE
    /\ env = QuietEnv
    /\ Common

DueConfigs ==
    {EmptyKeyFile,
     KeyFileOf([x \in {<<DefaultGroup, "balance_interval">>} |-> S_1D], NULL),
     KeyFileOf([x \in {<<DefaultGroup, "balance_interval">>, <<MP_A, "scrub_interval">>} |->
                   IF x[1] = MP_A THEN S_NEVER ELSE S_1D], NULL)}

DueRecords ==
    {TimesRecord(st, sc, ba) :
        st \in AroundDue(SECONDS_IN_AN_HOUR),
        sc \in AroundDue(SECONDS_IN_A_MONTH),
        ba \in AroundDue(SECONDS_IN_A_DAY)}

(* one filesystem whose last-run times are around the due points, in an
   environment where handlers fail, take time and the power changes *)
InitDue ==
    /\ mtab = MountTable(<<Mount(MP_A, DEV_42)>>)
    /\ uid = 0
    /\ euid = uid
    /\ config_file \in {NoFile, CorruptFile(EmptyKeyFile)}
                       \cup {ConfigFile(c) : c \in DueConfigs}
    /\ files \in {FilesWith(MP_A, f) : f \in
                    {NoFile, CorruptFile(EmptyKeyFile),
                     CorruptFile(TimesRecord(StartOfTime - 5, 0, 0))}
                    \cup {OkFile(r) : r \in DueRecords}}
    /\ on_battery \in BOOLEAN
    /\ env = [reads |-> {CleanRead, ReadFailed("command_failed")},
              walls |-> {"written"}, sends |-> {"sent"},
              spawns |-> SpawnOutcomes, saves |-> BOOLEAN,
              elapsed |-> {0, ElapsedStep}, power |-> BOOLEAN, power_at_start |-> {},
              gaps |-> {}, waits |-> {}, mounts |-> {}, invocations |-> 1]
    /\ Common

NotifyConfigs ==
    {EmptyKeyFile,
     KeyFileOf([x \in {<<DefaultGroup, "mail_address">>} |-> S_ADDRESS], NULL),
     KeyFileOf([x \in {<<DefaultGroup, "mail_address">>, <<MP_A, "mail_address">>} |->
                   IF x[1] = MP_A THEN S_BLANK ELSE S_ADDRESS], NULL),
     KeyFileOf([x \in {<<MP_A, "mail_address">>} |-> S_ADDRESS], NULL)}

NotifyRecords ==
    {MessagesRecord(total, bc, mail) :
        total \in 0..(MaxCounter + 1),
        bc \in {0, FirstRef - BroadcastWindow, FirstRef - BroadcastWindow - 1},
        mail \in {0, FirstRef - MailWindow, FirstRef - MailWindow + 1}}

(* one filesystem whose stats are due, with every outcome of reading the
   stats and of sending the mail *)
InitNotify ==
    /\ mtab = MountTable(<<Mount(MP_A, DEV_42)>>)
    /\ uid = 0
    /\ euid = uid
    /\ config_file \in {ConfigFile(c) : c \in NotifyConfigs}
    /\ files \in {FilesWith(MP_A, OkFile(r)) : r \in NotifyRecords}
    /\ on_battery = FALSE
    /\ env = [QuietEnv EXCEPT !.reads = ReadFailures \cup PlainReads,
                              !.walls = WallOutcomes,
                              !.sends = SendOutcomes]
    /\ Common

(* one filesystem whose stats are due, with every report of the devices *)
InitDevices ==
    /\ mtab = MountTable(<<Mount(MP_A, DEV_42)>>)
    /\ uid = 0
    /\ euid = uid
    /\ config_file = NoFile
    /\ files \in {FilesWith(MP_A, OkFile(MessagesRecord(total, 0, 0))) :
                      total \in 0..MaxCounter}
    /\ on_battery = FALSE
    /\ env = [QuietEnv EXCEPT !.reads = ReadSuccesses]
    /\ Common

OldRecord ==
    TimesRecord(FirstRef - 2 * SECONDS_IN_A_MONTH, FirstRef - 2 * SECONDS_IN_A_MONTH,
                FirstRef - 2 * SECONDS_IN_A_MONTH)

IntervalKeys ==
    {<<g, k>> : g \in {DefaultGroup, MP_A},
                k \in {"stats_interval", "scrub_interval", "balance_interval"}}

IntervalStrings(group) ==
    IF group = DefaultGroup THEN {NULL, S_NEVER, S_2H, S_2U} ELSE {NULL, S_NEVER, S_1D}

IntervalConfigs ==
    {KeyFileOf(c, NULL) : c \in
        {d \in [IntervalKeys -> {NULL, S_NEVER, S_2H, S_2U, S_1D}] :
            \A x \in IntervalKeys : d[x] \in IntervalStrings(x[1])}}

(* two filesystems, every way of setting the intervals *)
InitConfig ==
    /\ mtab = MountTable(<<Mount(MP_B, DEV_77), Mount(MP_A, DEV_42)>>)
    /\ uid = 0
    /\ euid = uid
    /\ config_file \in {ConfigFile(c) : c \in IntervalConfigs}
    /\ files = [f \in FileNames |-> OkFile(OldRecord)]
    /\ on_battery = FALSE
    /\ env = QuietEnv
    /\ Common

(* how late the timer may start the process *)
Jitters == {0, ReferenceSlack, ReferenceSlack + 1}

Gaps ==
    {i + j : i \in {SECONDS_IN_AN_HOUR, SECONDS_IN_A_MONTH},
             j \in Jitters}

(* one filesystem over several invocations *)
InitRepeat ==
    /\ mtab = MountTable(<<Mount(MP_A, DEV_42)>>)
    /\ uid = 0
    /\ euid = uid
    /\ config_file = NoFile
    /\ files \in {FilesWith(MP_A, f) : f \in {NoFile, OkFile(OldRecord)}}
    /\ on_battery \in BOOLEAN
    /\ env = [reads |-> {CleanRead, ReadFailed("spawn_failed")},
              walls |-> {"written"}, sends |-> {"sent"},
              spawns |-> {"ok", "exit_nonzero"}, saves |-> {TRUE},
              elapsed |-> {0, ElapsedStep}, power |-> {}, power_at_start |-> BOOLEAN,
              gaps |-> Gaps, waits |-> {}, mounts |-> {}, invocations |-> MaxInvocations]
    /\ Common

(* three mounts of two filesystems, in an environment where the state files
   may not load or save and the handlers may fail *)
InitFailures ==
    /\ mtab = MountTable(<<Mount(MP_B, DEV_77), Mount(MP_A, DEV_42), Mount(MP_ROOT, DEV_42)>>)
    /\ uid = 0
    /\ euid = uid
    /\ config_file = NoFile
    /\ files \in {[f \in FileNames |->
                      IF f = btd_fs_record_get_state_filename(MP_ROOT) THEN r
                      ELSE OkFile(OldRecord)] :
                      r \in {OkFile(OldRecord), CorruptFile(EmptyKeyFile)}}
    /\ on_battery = FALSE
    /\ env = [QuietEnv EXCEPT !.reads = {CleanRead, ReadFailed("command_failed")},
                              !.spawns = {"ok", "spawn_failed"},
                              !.saves = BOOLEAN]
    /\ Common

(* one filesystem that is mounted at more places between two invocations *)
InitRemount ==
    /\ mtab = MountTable(<<Mount(MP_A, DEV_42)>>)
    /\ uid = 0
    /\ euid = uid
    /\ config_file = NoFile
    /\ files \in {FilesWith(MP_A, f) : f \in {NoFile, OkFile(OldRecord)}}
    /\ on_battery = FALSE
    /\ env = [QuietEnv EXCEPT !.gaps = {SECONDS_IN_AN_HOUR + ReferenceSlack + 1},
                              !.power_at_start = {FALSE},
                              !.mounts = {Mount(MP_ROOT, DEV_42), Mount(MP_B, DEV_42)},
                              !.invocations = MaxInvocations]
    /\ Common

RemindConfigs ==
    {EmptyKeyFile,
     KeyFileOf([x \in {<<DefaultGroup, "mail_address">>} |-> S_ADDRESS], NULL)}

(* records of a filesystem whose stats are due: with or without errors
   counted, a broadcast and a mail an hour before *)
RemindRecords ==
    {MessagesRecord(total, bc, mail) :
        total \in {0, MaxCounter},
        bc \in {0, FirstRef - SECONDS_IN_AN_HOUR},
        mail \in {0, FirstRef - SECONDS_IN_AN_HOUR}}

(* one filesystem over several invocations an hour apart, whose devices are
   clean or have errors and whose mails may not get through *)
InitRemind ==
    /\ mtab = MountTable(<<Mount(MP_A, DEV_42)>>)
    /\ uid = 0
    /\ euid = uid
    /\ config_file \in {ConfigFile(c) : c \in RemindConfigs}
    /\ files \in {FilesWith(MP_A, OkFile(r)) : r \in RemindRecords}
    /\ on_battery = FALSE
    /\ env = [QuietEnv EXCEPT !.reads = {CleanRead, ReadOk(<<DeviceEntry(MaxCounter, 0)>>),
                                         ReadFailed("command_failed")},
                              !.sends = {"sent", "exit_nonzero"},
                              !.saves = BOOLEAN,
                              !.gaps = {SECONDS_IN_AN_HOUR + ReferenceSlack + 1},
                              !.power_at_start = {FALSE},
                              !.invocations = MaxInvocations]
    /\ Common

(* one filesystem, with time passing between the calls of load() and run() *)
InitLoad ==
    /\ mtab \in {MountTable(<<Mount(MP_A, DEV_42)>>), Unreadable}
    /\ uid \in {0, 1000}
    /\ euid \in {0, 1000}
    /\ config_file \in {NoFile, CorruptFile(EmptyKeyFile)}
                       \cup {ConfigFile(c) : c \in DueConfigs}
    /\ files \in {FilesWith(MP_A, f) : f \in {NoFile, OkFile(OldRecord)}}
    /\ on_battery = FALSE
    /\ env = [QuietEnv EXCEPT !.waits = {ElapsedStep}]
    /\ Common

Init ==
    \/ InitLoad
    \/ InitMounts
    \/ InitDue
    \/ InitNotify
    \/ InitDevices
    \/ InitConfig
    \/ InitRepeat
    \/ InitFailures
    \/ InitRemount
    \/ InitRemind

Spec == Init /\ [][Next]_vars

(***************************************************************************)
(* The utility functions, each applied to an input drawn within the bounds *)
(***************************************************************************)
MaxDurationLen == 3

S_NOTVALID == <<"n", "o", "t", "v", "a", "l", "i", "d">>

DurationChars == {"0", "1", "2", "-", " ", "h", "d", "w", "M", "u"}

DurationStrings ==
    SeqsUpTo(DurationChars, MaxDurationLen) \cup {NULL, S_NEVER, S_NOTVALID}

ParseDurationCall ==
    \E str \in DurationStrings : call = [fn |-> "parse_duration", str |-> str]

MaxTemplateLen == 6

S_A == <<"a">>
S_B == <<"b">>
S_PLACEHOLDER_B == <<"{", "{", "b", "}", "}">>

TemplateChars == {"{", "}", "a", "b"}

S_TWO_PLACEHOLDERS == <<"{", "{", "a", "}", "}", "{", "{", "b", "}", "}">>

Templates == SeqsUpTo(TemplateChars, MaxTemplateLen) \cup {NULL, S_TWO_PLACEHOLDERS}

TemplatePairs ==
    { <<>>,
      << <<S_A, S_B>> >>,
      << <<S_A, NULL>> >>,
      << <<S_A, S_A>>, <<S_A, S_B>> >>,
      << <<S_A, S_PLACEHOLDER_B>>, <<S_B, S_A>> >> }

RenderTemplateCall ==
    \E template \in Templates, pairs \in TemplatePairs :
        call = [fn |-> "render_template", template |-> template, pairs |-> pairs]

MaxPathLen == 3

PathChars == {"/", ".", "-", "a"}

Paths == SeqsUpTo(PathChars, MaxPathLen)

CanonicalPaths == {g_canonicalize_filename(path) : path \in Paths}

S_A_B_C == <<"/", "a", "/", "b", "/", "c">>
S_AB_C == <<"/", "a", "-", "b", "/", "c">>
S_UP_UP_HERE == <<"/", ".", ".", "/", ".", ".", "/", ".">>
S_A_BACKSLASH_B == <<"/", "a", "\\", "b">>

(* /a/a-a-a-a-a/a/a/a-a-a-a-a-a/a/a-a *)
S_LONG_1 ==
    <<"/", "a", "/", "a", "-", "a", "-", "a", "-", "a", "-", "a", "/", "a", "/", "a",
      "/", "a", "-", "a", "-", "a", "-", "a", "-", "a", "-", "a", "/", "a", "/", "a",
      "-", "a">>

(* /a-a/a/a-a-a-a-a-a/a/a/a-a-a-a-a/a *)
S_LONG_2 ==
    <<"/", "a", "-", "a", "/", "a", "/", "a", "-", "a", "-", "a", "-", "a", "-", "a",
      "-", "a", "/", "a", "/", "a", "/", "a", "-", "a", "-", "a", "-", "a", "-", "a",
      "/", "a">>

ExamplePathPairs ==
    {<<S_A_B_C, S_AB_C>>, <<S_UP_UP_HERE, MP_ROOT>>, <<S_A_BACKSLASH_B, S_AB_C>>,
     <<S_LONG_1, S_LONG_2>>}

PathToFilenameCall ==
    \/ \E path \in Paths, other \in CanonicalPaths :
           call = [fn |-> "path_to_filename", path |-> path, other |-> other]
    \/ \E pq \in ExamplePathPairs :
           call = [fn |-> "path_to_filename", path |-> pq[1], other |-> pq[2]]

MaxUnitCount == 2

(* so many of a unit that fits limit times into the next one *)
UnitCounts(limit) == 0..MaxUnitCount \cup {limit - 1}

TimeSpans ==
    {M * SECONDS_IN_A_MONTH + d * SECONDS_IN_A_DAY + h * SECONDS_IN_AN_HOUR + m * 60 + sec :
        M \in 0..MaxUnitCount, d \in UnitCounts(30) \cup {30}, h \in UnitCounts(24),
        m \in UnitCounts(60), sec \in UnitCounts(60)}

ExampleTimeSpans == {1, 5, 70, 120, 3660}

HumanizeTimeCall ==
    \E seconds \in TimeSpans \cup ExampleTimeSpans :
        call = [fn |-> "humanize_time", seconds |-> seconds]

(* the devices of a filesystem, named by their place in the pool *)
DeviceLetters == <<"a", "b", "c", "d">>
DeviceIds == <<"1", "2", "3", "4">>

DeviceNamed(k, entry) ==
    [device |-> <<"s", "d", DeviceLetters[k]>>, devid |-> <<DeviceIds[k]>>,
     write_io_errs |-> entry.write_io_errs, read_io_errs |-> entry.read_io_errs,
     flush_io_errs |-> entry.flush_io_errs, corruption_errs |-> entry.corruption_errs,
     generation_errs |-> entry.generation_errs]

(* the orders in which btrfs may list n devices *)
DeviceOrders(n) == {o \in [1..n -> 1..n] : \A i, j \in 1..n : o[i] = o[j] => i = j}

(* the device-stats arrays: up to MaxDevices devices in any order, each with
   any of the counters of DeviceEntries *)
DeviceStatsArrays ==
    UNION {{[k \in 1..n |-> DeviceNamed(o[k], a[k])] :
               o \in DeviceOrders(n), a \in [1..n -> DeviceEntries]} :
           n \in 0..MaxDevices}

ParseDeviceStatsCall ==
    \E array \in DeviceStatsArrays : call = [fn |-> "parse_device_stats", array |-> array]

(* a process that sets up its logging and logs a message of some level *)
LogCall ==
    \E is_tty \in BOOLEAN, have_systemd \in BOOLEAN, sd_booted \in {-1, 0, 1},
       level \in LogLevels :
        call = [fn |-> "log", is_tty |-> is_tty, have_systemd |-> have_systemd,
                sd_booted |-> sd_booted, level |-> level]

UtilInit ==
    /\ mtab = Unreadable
    /\ uid = 0
    /\ euid = 0
    /\ config_file = NoFile
    /\ files = NoFiles
    /\ on_battery = FALSE
    /\ env = QuietEnv
    /\ Quiescent
    /\ \/ ParseDurationCall
       \/ RenderTemplateCall
       \/ PathToFilenameCall
       \/ HumanizeTimeCall
       \/ ParseDeviceStatsCall
       \/ LogCall
    /\ result = Pending

Returns(value) ==
    /\ result = Pending
    /\ result' = <<value>>
    /\ UNCHANGED <<now, on_battery, uid, euid, mtab, config_file, env, call, files, pc,
                   schedVars, known_devices, idx, act, record, ret, log, histVars>>

ParseDuration ==
    /\ call.fn = "parse_duration"
    /\ Returns(btd_parse_duration_string(call.str))

RenderTemplate ==
    /\ call.fn = "render_template"
    /\ Returns(btd_render_template(call.template, call.pairs))

PathToFilename ==
    /\ call.fn = "path_to_filename"
    /\ Returns(<<btd_path_to_filename(call.path), btd_path_to_filename(call.other)>>)

HumanizeTime ==
    /\ call.fn = "humanize_time"
    /\ Returns(btd_humanize_time(call.seconds))

(* btd_parse_btrfs_device_stats returns the report and leaves the count in
   *errors_count *)
ParseDeviceStats ==
    /\ call.fn = "parse_device_stats"
    /\ Returns([report |-> DeviceStatsReport(call.array),
                errors_count |-> btd_parse_btrfs_device_stats(call.array)])

(* btd_logging_setup, then btd_log with the backend it left *)
Log ==
    /\ call.fn = "log"
    /\ LET log_backend == btd_logging_setup(call.is_tty, call.have_systemd,
                                            call.sd_booted)
       IN  Returns([backend |-> log_backend,
                    openlog |-> SyslogOpened(log_backend, call.is_tty),
                    message |-> btd_log_va(log_backend, call.have_systemd, call.level)])

UtilNext ==
    \/ ParseDuration
    \/ RenderTemplate
    \/ PathToFilename
    \/ HumanizeTime
    \/ ParseDeviceStats
    \/ Log

UtilSpec == UtilInit /\ [][UtilNext]_vars

(***************************************************************************)
(* The executable: main of btrfsd.c                                        *)
(***************************************************************************)
EXIT_SUCCESS == 0
EXIT_FAILURE == 1

CommandLines == {<<>>, <<"--status">>, <<"--version">>, <<"--verbose">>, <<"--bogus">>}

KnownOptions == {"--status", "--version", "--verbose"}

(* g_option_context_parse: an option that was not declared is an error *)
g_option_context_parse(argv) == \A i \in 1..Len(argv) : argv[i] \in KnownOptions

HasOption(argv, option) == \E i \in 1..Len(argv) : argv[i] = option

(* lists the mounted filesystems; no state record is read *)
btd_show_status ==
    IF ~mtab.ok THEN EXIT_FAILURE ELSE EXIT_SUCCESS

(* the exit code of main *)
MainExitCode(argv) ==
    IF ~g_option_context_parse(argv) THEN EXIT_FAILURE
    ELSE IF HasOption(argv, "--version") THEN EXIT_SUCCESS
    ELSE IF HasOption(argv, "--status") THEN btd_show_status
    ELSE EXIT_SUCCESS

main ==
    /\ call.fn = "main"
    /\ Returns(MainExitCode(call.argv))

MainInit ==
    /\ mtab \in {MountTable(t) : t \in MountTables} \cup {Unreadable}
    /\ uid \in {0, 1000}
    /\ euid = uid
    /\ config_file = NoFile
    /\ files \in {NoFiles, FilesWith(MP_A, CorruptFile(EmptyKeyFile))}
    /\ on_battery = FALSE
    /\ env = QuietEnv
    /\ Quiescent
    /\ \E argv \in CommandLines : call = [fn |-> "main", argv |-> argv]
    /\ result = Pending

MainNext == main

MainSpec == MainInit /\ [][MainNext]_vars

(***************************************************************************)
(* btd_scheduler_print_status                                              *)
(***************************************************************************)
(* priv->mountpoints is NULL until btd_scheduler_load got the mount table *)
MountpointsIsNull == ~loaded /\ ret.err # "config"

(* a last-run time that is shown whenever the record holds one *)
LastRunIsNeverIfZero(last_action_timestamp, is_new) == last_action_timestamp = 0

(* the test of btd_scheduler_print_fs_status_entry for printing "Never" *)
LastRunIsNever(last_action_timestamp, is_new) == last_action_timestamp = 0 \/ is_new

(* g_date_time_format of the timestamp in local time, kept as the timestamp *)
LastRunText(last_action_timestamp, is_new) ==
    IF LastRunIsNever(last_action_timestamp, is_new)
    THEN [text |-> "Never", unix_local |-> 0]
    ELSE [text |-> "%Y-%m-%d %H:%M:%S", unix_local |-> last_action_timestamp]

NothingPrinted == [text |-> "", unix_local |-> 0]

(* one turn of the loop of btd_scheduler_print_fs_status_entry: what is
   printed for action j of the filesystem mounted at bfs, and whether its
   record could be loaded *)
StatusOfAction(bfs, j) ==
    LET l == btd_fs_record_load(files[btd_fs_record_get_state_filename(bfs.mountpoint)],
                                now)
        last_action_timestamp == btd_fs_record_get_last_action_time(l.state, j)
    IN  [runs_every |->
             btd_humanize_time(
                 btd_scheduler_get_config_duration_for_action(config, default_intervals,
                                                              bfs, j)),
         load_ok |-> l.ok,
         last_run |-> IF l.ok THEN LastRunText(last_action_timestamp, l.is_new)
                      ELSE NothingPrinted,
         mails_to |-> IF l.ok /\ j = BTD_BTRFS_ACTION_STATS
                      THEN btd_scheduler_get_config_value(config, bfs, "mail_address", NULL)
                      ELSE NULL]

(* btd_scheduler_print_fs_status_entry for the sorted mountpoints of one
   device: the block it prints and what it returns *)
btd_scheduler_print_fs_status_entry(mps) ==
    LET bfs == mps[1]
        entries == [j \in Actions |-> StatusOfAction(bfs, j)]
    IN  [mountpoint |-> bfs.mountpoint,
         secondary |-> [i \in 1..(Len(mps) - 1) |-> mps[i + 1].mountpoint],
         actions |-> entries,
         ret |-> \A j \in Actions : entries[j].load_ok]

(* the keys of devno_map *)
DevnoKeys == {GUINT_TO_POINTER(btd_filesystem_get_devno(mountpoints[i])) :
                 i \in 1..Len(mountpoints)}

KeyIs(key, bfs) == GUINT_TO_POINTER(btd_filesystem_get_devno(bfs)) = key

(* the array devno_map holds for a key, in the order of priv->mountpoints *)
DevnoMap(key) == SelectSeq(mountpoints, LAMBDA bfs : KeyIs(key, bfs))

(* the arrays after each was sorted *)
SortedDevnoMaps ==
    {m \in [DevnoKeys -> UNION {g_ptr_array_sort(DevnoMap(key)) : key \in DevnoKeys}] :
        \A key \in DevnoKeys : m[key] \in g_ptr_array_sort(DevnoMap(key))}

(* what btd_scheduler_print_status prints and returns when it went through
   the sorted arrays of sorted: the blocks are kept by key, not in the order
   in which the hash table was walked *)
StatusPrinted(sorted) ==
    [crashed |-> FALSE,
     on_battery |-> on_battery,
     blocks |-> [key \in DOMAIN sorted |-> btd_scheduler_print_fs_status_entry(sorted[key])],
     ret |-> \A key \in DOMAIN sorted : btd_scheduler_print_fs_status_entry(sorted[key]).ret]

NoMountsPrinted == [crashed |-> FALSE, on_battery |-> FALSE, blocks |-> <<>>, ret |-> TRUE]

(* priv->mountpoints->len of a NULL pointer: the process is killed *)
StatusCrashed == [crashed |-> TRUE, on_battery |-> FALSE, blocks |-> <<>>, ret |-> FALSE]

btd_scheduler_print_status ==
    /\ call.fn = "print_status"
    /\ pc \in {"new", "loaded", "failed"}
    /\ IF MountpointsIsNull THEN Returns(StatusCrashed)
       ELSE IF Len(mountpoints) = 0 THEN Returns(NoMountsPrinted)
       ELSE \E sorted \in SortedDevnoMaps : Returns(StatusPrinted(sorted))

(* state directories with records that are missing, corrupt, or hold times *)
StatusDirs ==
    {NoFiles,
     FilesWith(MP_A, CorruptFile(EmptyKeyFile)),
     FilesWith(MP_B, CorruptFile(EmptyKeyFile)),
     FilesWith(MP_A, OkFile(TimesRecord(0, StartOfTime - SECONDS_IN_A_DAY, 0))),
     FilesWith(MP_ROOT, OkFile(TimesRecord(StartOfTime - 60, StartOfTime - 60, 0)))}

StatusConfigs == {NoFile, CorruptFile(EmptyKeyFile)}

(* mount tables of up to MaxMounts mounts of two devices *)
StatusMountTables == SeqsUpTo(PlainMounts, MaxMounts)

StatusInit ==
    /\ mtab \in {MountTable(t) : t \in StatusMountTables} \cup {Unreadable}
    /\ uid = 0
    /\ euid = uid
    /\ config_file \in StatusConfigs
    /\ files \in StatusDirs
    /\ on_battery = FALSE
    /\ env = QuietEnv
    /\ Quiescent
    /\ call = [fn |-> "print_status"]
    /\ result = Pending

StatusNext ==
    \/ btd_scheduler_load
    \/ btd_scheduler_print_status

StatusSpec == StatusInit /\ [][StatusNext]_vars

(***************************************************************************)
(* Reading the log and the state directory                                 *)
(***************************************************************************)
Events(kind) == {i \in 1..Len(log) : log[i].ev = kind}

Considered == {log[i] : i \in Events("consider")}
Pipelines == {log[i] : i \in Events("pipeline")}

(* the last-run time a state file holds; a missing key or file reads as 0 *)
PersistedTime(f, a) ==
    IF f.kind = "absent" THEN 0
    ELSE btd_fs_record_get_last_action_time(f.kf, a)

(* the names of the state files of the mountpoints *)
StateFileNames == [mp \in Mountpoints |-> btd_fs_record_get_state_filename(mp)]

StateFile(dir, mp) == dir[StateFileNames[mp]]

RunIsOver == pc = "done" /\ ret.call = "run" /\ ret.ok

(***************************************************************************)
(* C1                                                                      *)
(***************************************************************************)
(* C1 as stated: after run(), every persisted times.<action> of a
   processed filesystem equals its pre-run value or reference_time. *)
C1_TimesAreOldOrReference ==
    RunIsOver =>
        \A p \in Pipelines : \A a \in Actions :
            PersistedTime(StateFile(files, p.mp), a) \in
                {PersistedTime(StateFile(pre_files, p.mp), a), reference_time}

(* C1 amended: after run(), every persisted times.<action> of a processed
   filesystem equals its pre-run value, or the wall clock read when a handler
   of that action returned "launched", or, for scrub and balance of a record
   that had no file, the wall clock read when the record was loaded; a value
   written is at least reference_time + 60 and never reference_time. *)
C1_TimesAreOldOrWallClock ==
    RunIsOver =>
        \A p \in Pipelines : \A a \in Actions :
            LET value == PersistedTime(StateFile(files, p.mp), a)
                before == PersistedTime(StateFile(pre_files, p.mp), a)
            IN  \/ value = before
                \/ /\ value >= reference_time + ReferenceSlack
                   /\ \/ \E e \in Considered :
                            /\ e.mp = p.mp /\ e.action = a
                            /\ e.launched /\ e.at = value
                      \/ /\ a # BTD_BTRFS_ACTION_STATS
                         /\ \E q \in Pipelines : q.mp = p.mp /\ q.at = value

(* a run is over in which a launched action left a new time in the file *)
C1_Witness ==
    /\ RunIsOver
    /\ \E e \in Considered :
           /\ e.launched
           /\ PersistedTime(StateFile(files, e.mp), e.action) = e.at
           /\ PersistedTime(StateFile(pre_files, e.mp), e.action) # e.at
           /\ e.at > reference_time + ReferenceSlack

(***************************************************************************)
(* C2                                                                      *)
(***************************************************************************)
StatsInvoked(e) == e.action = BTD_BTRFS_ACTION_STATS /\ e.verdict = "invoked"

(* C2: the scrub handler and the balance handler are never invoked while
   the power probe reports on-battery; the stats handler is invoked whenever
   it is enabled and due, whatever the power probe reports. *)
C2_BatteryGate ==
    \A e \in Considered :
        /\ (e.verdict = "invoked" /\ e.action # BTD_BTRFS_ACTION_STATS) => ~e.power
        /\ (/\ e.action = BTD_BTRFS_ACTION_STATS
            /\ e.interval # 0
            /\ e.ref - e.last > e.interval) => e.verdict = "invoked"

(* on battery, the stats handler was invoked and a due scrub was skipped *)
C2_Witness ==
    \E e, f \in Considered :
        /\ e.mp = f.mp
        /\ StatsInvoked(e) /\ e.power
        /\ f.action = BTD_BTRFS_ACTION_SCRUB /\ f.power
        /\ f.ref - f.last > f.interval /\ f.interval # 0
        /\ f.verdict = "battery"

(***************************************************************************)
(* C4                                                                      *)
(***************************************************************************)
MountsOf(devno) == {i \in 1..Len(mtab.fs) : mtab.fs[i].devno = devno}

(* the mount list of the example, under the names of this model: two mounts
   of device 42 and one of device 77 *)
ExampleMounts == {Mount(MP_ROOT, DEV_42), Mount(MP_A, DEV_42), Mount(MP_B, DEV_77)}

IsExampleTable ==
    /\ mtab.ok
    /\ Len(mtab.fs) = 3
    /\ {mtab.fs[i] : i \in 1..3} = ExampleMounts

PipelineMounts == {Mount(log[i].mp, log[i].devno) : i \in Events("pipeline")}

(* C4: the per-mount pipeline is invoked at most once per device number, and
   for the mount whose mountpoint sorts first among the mounts of that device
   number, in whatever order the mount table lists them; the example list
   gives exactly two pipelines, for the first mount of device 42 and for the
   mount of device 77. *)
C4_OnePipelinePerDevice ==
    /\ \A i, j \in Events("pipeline") : log[i].devno = log[j].devno => i = j
    /\ \A i \in Events("pipeline") : \A m \in MountsOf(log[i].devno) :
           g_strcmp0(log[i].mp, mtab.fs[m].mountpoint) <= 0
    /\ (RunIsOver /\ IsExampleTable) =>
           /\ Cardinality(Events("pipeline")) = 2
           /\ PipelineMounts = {Mount(MP_ROOT, DEV_42), Mount(MP_B, DEV_77)}

(* the example list, listed with the mount of device 77 first and the
   second mount of device 42 before the first, was run *)
C4_Witness ==
    /\ RunIsOver
    /\ IsExampleTable
    /\ mtab.fs[1] = Mount(MP_B, DEV_77)
    /\ mtab.fs[2] = Mount(MP_A, DEV_42)
    /\ Cardinality(Events("pipeline")) = 2
    /\ Cardinality(Events("skip")) = 1

(***************************************************************************)
(* C5                                                                      *)
(***************************************************************************)
(* the times the pipeline of the consider event at i loaded, and the times
   it saved if it is over: the events before and after its three actions *)
LoadedTimes(i) == log[i - log[i].action].times
SavedTimes(i) ==
    IF i - log[i].action + BTD_BTRFS_ACTION_LAST <= Len(log)
    THEN {log[i - log[i].action + BTD_BTRFS_ACTION_LAST].times}
    ELSE {}

(* C5: a handler is invoked only if reference_time - last_action_time >
   interval; when the difference is at most the interval (equality included)
   the action is skipped and its timestamp is as it was loaded, in the record
   and in the record that is saved; every decision of the invocation uses the
   one reference_time captured at load, the wall time of load minus 60 s. *)
C5_DueTest ==
    \A i \in Events("consider") :
        LET e == log[i]
        IN  /\ e.verdict = "invoked" => e.ref - e.last > e.interval
            /\ e.ref - e.last <= e.interval =>
                   /\ e.verdict \in {"not_due", "disabled"}
                   /\ ~e.launched
                   /\ e.stamp = e.last
                   /\ LoadedTimes(i)[e.action] = e.last
                   /\ \A t \in SavedTimes(i) : t[e.action] = e.last
            /\ e.ref = reference_time
            /\ e.ref = start_time - ReferenceSlack

(* an action was skipped exactly at the end of its interval, and another
   was invoked one second past the end of its own *)
C5_Witness ==
    \E e, f \in Considered :
        /\ e.interval # 0 /\ e.ref - e.last = e.interval /\ e.verdict = "not_due"
        /\ \E i \in Events("save") : log[i].mp = e.mp /\ log[i].times[e.action] = e.last
        /\ f.ref - f.last = f.interval + 1 /\ f.verdict = "invoked"

(***************************************************************************)
(* C8                                                                      *)
(***************************************************************************)
IsConsider(i, mp, a) ==
    /\ i \in 1..Len(log)
    /\ log[i].ev = "consider" /\ log[i].mp = mp /\ log[i].action = a

(* C8: pipelines are started in ascending order of their mountpoints; in
   each filesystem the actions are considered in the order stats, scrub,
   balance; a pipeline starts only after all three actions of the pipeline
   before it were considered. *)
C8_Order ==
    /\ \A i, j \in Events("pipeline") :
           i < j =>
               /\ g_strcmp0(log[i].mp, log[j].mp) <= 0
               /\ j > i + 3
               /\ \A a \in Actions : IsConsider(i + a, log[i].mp, a)
    /\ \A i \in Events("consider") :
           /\ i > log[i].action
           /\ log[i - log[i].action].ev = "pipeline"
           /\ log[i - log[i].action].mp = log[i].mp
           /\ \A a \in 1..(log[i].action - 1) : IsConsider(i - log[i].action + a, log[i].mp, a)

(* a mount table listed in descending order was run: the pipeline of the
   mountpoint that sorts first ran first and all six actions were considered *)
C8_Witness ==
    /\ RunIsOver
    /\ Len(mtab.fs) = 2
    /\ g_strcmp0(mtab.fs[1].mountpoint, mtab.fs[2].mountpoint) > 0
    /\ Cardinality(Events("pipeline")) = 2
    /\ Cardinality(Events("consider")) = 6
    /\ \E i, j \in Events("pipeline") : i < j /\ log[i].mp = mtab.fs[2].mountpoint

(***************************************************************************)
(* C3                                                                      *)
(***************************************************************************)
(* the decisions of the invocation before this one on the same action of
   the same filesystem, the configuration being what it was *)
Earlier(e) ==
    {p \in prev.considered :
        p.mp = e.mp /\ p.action = e.action /\ p.interval = e.interval}

FailedBefore(e) == \E p \in Earlier(e) : p.verdict = "invoked" /\ ~p.launched

(* the timestamp of an invoked action is updated iff the handler returned
   "launched"; otherwise it stays what it was, in the record that is saved
   and in the state file when the run is over *)
StampIffLaunched ==
    \A i \in Events("consider") :
        LET e == log[i]
        IN  e.verdict = "invoked" =>
                /\ e.launched => (e.stamp = e.at /\ e.stamp # e.last)
                /\ ~e.launched =>
                       /\ e.stamp = e.last
                       /\ \A t \in SavedTimes(i) : t[e.action] = e.last
                       /\ RunIsOver =>
                              PersistedTime(StateFile(files, e.mp), e.action) =
                                  PersistedTime(StateFile(pre_files, e.mp), e.action)

(* C3 as stated: the timestamp of a due action is updated iff the handler
   returns "launched", and an action whose handler returned "not launched"
   is found due and is attempted again by the next invocation. *)
C3_FailedIsAttemptedAgain ==
    /\ StampIffLaunched
    /\ \A e \in Considered :
           FailedBefore(e) =>
               /\ e.ref - e.last > e.interval
               /\ e.verdict = "invoked"

(* C3 amended: the timestamp of a due action is updated iff the handler
   returns "launched", and an action whose handler returned "not launched"
   is found due by the next invocation, which attempts it again unless it is
   scrub or balance and the machine is then on battery. *)
C3_FailedIsDueAgain ==
    /\ StampIffLaunched
    /\ \A e \in Considered :
           FailedBefore(e) =>
               /\ e.ref - e.last > e.interval
               /\ \/ e.verdict = "invoked"
                  \/ /\ e.verdict = "battery"
                     /\ e.action # BTD_BTRFS_ACTION_STATS
                     /\ e.power

(* a scrub failed in the invocation before and fails again in this one,
   its timestamp still the one both found *)
C3_Witness ==
    \E e \in Considered :
        /\ e.action = BTD_BTRFS_ACTION_SCRUB
        /\ FailedBefore(e)
        /\ e.verdict = "invoked" /\ ~e.launched
        /\ e.stamp = e.last
        /\ invocations = MaxInvocations

(***************************************************************************)
(* C6                                                                      *)
(***************************************************************************)
(* C6: an action of interval I that was launched by the invocation before
   this one is found due by this invocation if this one started I seconds
   after that one, or up to a minute later. *)
C6_DueAfterOneInterval ==
    \A e \in Considered :
        \A p \in Earlier(e) :
            (/\ p.launched
             /\ e.interval # 0
             /\ start_time - prev.start >= e.interval
             /\ start_time - prev.start <= e.interval + ReferenceSlack)
            => e.verdict \in {"invoked", "battery"}

(***************************************************************************)
(* C7                                                                      *)
(***************************************************************************)
NeverRun ==
    /\ \A e \in Considered : e.interval = 0 => (e.verdict = "disabled" /\ ~e.launched)
    /\ \A p \in prev.considered : p.interval = 0 => (p.verdict = "disabled" /\ ~p.launched)

(* C7 as stated: an action whose interval is 0 is never run, and after the
   run its timestamp in the state file is what it was before the run. *)
C7_DisabledIsUntouched ==
    /\ NeverRun
    /\ RunIsOver =>
           \A e \in Considered :
               e.interval = 0 =>
                   PersistedTime(StateFile(files, e.mp), e.action) =
                       PersistedTime(StateFile(pre_files, e.mp), e.action)

(* C7 amended: an action whose interval is 0 is never run and the loop over
   the actions leaves its timestamp as the record was loaded; the state file
   then holds what it held before the run, except that a filesystem that had
   no state file gets the wall time of the load as the timestamp of scrub and
   of balance, disabled or not. *)
C7_DisabledIsLeftAsLoaded ==
    /\ NeverRun
    /\ \A i \in Events("consider") :
           LET e == log[i]
           IN  e.interval = 0 =>
                   /\ e.stamp = e.last
                   /\ LoadedTimes(i)[e.action] = e.last
                   /\ \A t \in SavedTimes(i) : t[e.action] = e.last
                   /\ RunIsOver =>
                          LET value == PersistedTime(StateFile(files, e.mp), e.action)
                              before == PersistedTime(StateFile(pre_files, e.mp), e.action)
                          IN  \/ value = before
                              \/ /\ e.action # BTD_BTRFS_ACTION_STATS
                                 /\ \E q \in Pipelines :
                                        q.mp = e.mp /\ q.is_new /\ q.at = value

(* a run is over that skipped a disabled balance whose last-run time was
   more than a month ago, and left that time in the state file *)
C7_Witness ==
    /\ RunIsOver
    /\ \E e \in Considered :
           /\ e.action = BTD_BTRFS_ACTION_BALANCE
           /\ e.interval = 0 /\ e.verdict = "disabled"
           /\ e.last # 0 /\ e.ref - e.last > SECONDS_IN_A_MONTH
           /\ PersistedTime(StateFile(files, e.mp), e.action) = e.last

(***************************************************************************)
(* C9                                                                      *)
(***************************************************************************)
(* the stats handler found errors *)
FoundErrors(e) == StatsInvoked(e) /\ e.h.read_ok /\ e.h.total > 0

(* the mail was handed to btd_send_email, which spawns sendmail *)
SendAttempted(e) == e.h.mail \in {"sent", "failed"}

(* C9: when the stats handler finds errors and a mail address is
   configured, the mail is sent off iff the errors increased or
   reference_time - messages.issue_mail_sent >= 20h; otherwise the send is
   suppressed and the handler reports success; messages.issue_mail_sent
   becomes reference_time after a successful send and is unchanged when the
   send is suppressed or fails. *)
C9_MailRateLimit ==
    \A e \in Considered :
        (FoundErrors(e) /\ ~btd_is_empty(e.h.address)) =>
            /\ SendAttempted(e) <=>
                   \/ e.h.total > e.h.prev
                   \/ e.ref - e.h.mail_before >= 20 * SECONDS_IN_AN_HOUR
            /\ ~SendAttempted(e) => (e.h.mail = "suppressed" /\ e.launched)
            /\ e.h.mail = "sent" => (e.h.mail_after = e.ref /\ e.launched)
            /\ e.h.mail # "sent" => e.h.mail_after = e.h.mail_before

(* with no new errors, a mail was sent exactly 20h after the last one *)
C9_Witness ==
    \E e \in Considered :
        /\ FoundErrors(e) /\ ~btd_is_empty(e.h.address)
        /\ e.h.total <= e.h.prev
        /\ e.ref - e.h.mail_before = 20 * SECONDS_IN_AN_HOUR
        /\ e.h.mail = "sent" /\ e.h.mail_after = e.ref

(***************************************************************************)
(* C10                                                                     *)
(***************************************************************************)
(* C10: when the stats handler finds errors, the broadcast is made iff the
   errors increased or reference_time - messages.broadcast_sent > 6h;
   messages.broadcast_sent becomes reference_time when the broadcast is made
   and is unchanged otherwise. *)
C10_BroadcastRateLimit ==
    \A e \in Considered :
        FoundErrors(e) =>
            /\ e.h.broadcast <=>
                   \/ e.h.total > e.h.prev
                   \/ e.ref - e.h.broadcast_before > 6 * SECONDS_IN_AN_HOUR
            /\ e.h.broadcast => e.h.broadcast_after = e.ref
            /\ ~e.h.broadcast => e.h.broadcast_after = e.h.broadcast_before

(* with no new errors, no broadcast was made exactly 6h after the last one *)
C10_Witness ==
    \E e \in Considered :
        /\ FoundErrors(e)
        /\ e.h.total <= e.h.prev
        /\ e.ref - e.h.broadcast_before = 6 * SECONDS_IN_AN_HOUR
        /\ ~e.h.broadcast
        /\ e.h.broadcast_after = e.h.broadcast_before

(***************************************************************************)
(* C11                                                                     *)
(***************************************************************************)
(* the decision on action a of the pipeline that started at log position i,
   if it was taken already *)
DecisionsOf(i, a) == IF i + a <= Len(log) THEN {log[i + a]} ELSE {}

Due(e) == e.verdict \in {"invoked", "battery"}

(* C11: the pipeline of a filesystem that has no state file loads
   times.stats = 0 and times.scrub = times.balance = the time of the load; it
   runs stats at once if stats is enabled and runs neither scrub nor balance;
   once that record is stored, scrub is found due only by an invocation that
   starts more than one scrub interval after the load. *)
C11_FirstInvocation ==
    /\ \A i \in Events("pipeline") :
           log[i].is_new =>
               /\ log[i].times = <<0, log[i].at, log[i].at>>
               /\ \A e \in DecisionsOf(i, BTD_BTRFS_ACTION_STATS) :
                      e.interval # 0 => e.verdict = "invoked"
               /\ \A e \in DecisionsOf(i, BTD_BTRFS_ACTION_SCRUB) :
                      /\ e.last = log[i].at
                      /\ e.verdict \in {"not_due", "disabled"}
               /\ \A e \in DecisionsOf(i, BTD_BTRFS_ACTION_BALANCE) :
                      /\ e.last = log[i].at
                      /\ e.verdict \in {"not_due", "disabled"}
    /\ \A s \in prev.seeded : \A e \in Considered :
           (e.mp = s.mp /\ e.action = BTD_BTRFS_ACTION_SCRUB /\ e.last = s.at /\ Due(e)) =>
               start_time - s.at > e.interval

(* the first invocation ran stats for a filesystem without a state file on
   AC power and stored the record; this one, a scrub interval and 61 s later,
   runs the scrub *)
C11_Witness ==
    \E s \in prev.seeded : \E e \in Considered :
        /\ e.mp = s.mp /\ e.action = BTD_BTRFS_ACTION_SCRUB /\ e.last = s.at
        /\ e.interval = SECONDS_IN_A_MONTH
        /\ e.verdict = "invoked" /\ ~e.power
        /\ \E p \in prev.considered :
               /\ p.mp = s.mp /\ p.action = BTD_BTRFS_ACTION_STATS
               /\ p.verdict = "invoked" /\ p.launched

(***************************************************************************)
(* C12                                                                     *)
(***************************************************************************)
(* the pipeline that started at log position i took its three decisions and
   tried to save its record *)
PipelineIsComplete(i) ==
    /\ i + BTD_BTRFS_ACTION_LAST <= Len(log)
    /\ \A a \in Actions : log[i + a].ev = "consider" /\ log[i + a].action = a
    /\ log[i + BTD_BTRFS_ACTION_LAST].ev = "save"

(* something failed in the pipeline that started at log position i *)
PipelineFailed(i) ==
    \/ ~log[i].load_ok
    \/ \E a \in Actions : log[i + a].verdict = "invoked" /\ ~log[i + a].launched
    \/ ~log[i + BTD_BTRFS_ACTION_LAST].ok

(* C12: once run() has started on the mounts it never fails, whatever fails
   in a pipeline (the load or the save of a state record, a handler that
   returns "not launched"): when it returns it returns success, and every
   mount of the table was handled by a complete pipeline of its device. *)
C12_FailuresAreConfined ==
    /\ log # <<>> => pc # "failed"
    /\ (pc = "done" /\ ret.call = "run") =>
           /\ ret.ok
           /\ \A k \in 1..Len(mountpoints) :
                  \E i \in Events("pipeline") :
                      /\ log[i].devno[2] = mountpoints[k].devno[2]
                      /\ PipelineIsComplete(i)

(* a run is over in which the first filesystem failed to load its record,
   to read its stats and to save its record, and the second was processed *)
C12_Witness ==
    /\ RunIsOver
    /\ \E i, j \in Events("pipeline") :
           /\ i < j
           /\ ~log[i].load_ok
           /\ log[i + BTD_BTRFS_ACTION_STATS].verdict = "invoked"
           /\ ~log[i + BTD_BTRFS_ACTION_STATS].launched
           /\ ~log[i + BTD_BTRFS_ACTION_LAST].ok
           /\ PipelineFailed(i)
           /\ PipelineIsComplete(j)
           /\ log[j + BTD_BTRFS_ACTION_STATS].launched

(***************************************************************************)
(* C13                                                                     *)
(***************************************************************************)
IntervalKey(a) ==
    IF a = BTD_BTRFS_ACTION_STATS THEN "stats_interval"
    ELSE IF a = BTD_BTRFS_ACTION_SCRUB THEN "scrub_interval"
    ELSE "balance_interval"

BuiltInInterval(a) ==
    IF a = BTD_BTRFS_ACTION_STATS THEN 3600
    ELSE IF a = BTD_BTRFS_ACTION_SCRUB THEN 2630016
    ELSE 0

(* what settings.conf holds *)
Settings == IF config_file.kind = "ok" THEN config_file.kf ELSE EmptyKeyFile

HasSetting(group, key) == <<group, key>> \in DOMAIN Settings

(* C13: the interval of an action on a mount is the <action>_interval key
   of the section named by the mountpoint if that key is present, else the
   key of the default section if present, else the built-in default: 3600 s
   for stats, 2630016 s for scrub, 0 for balance. *)
C13_IntervalResolution ==
    \A e \in Considered :
        LET key == IntervalKey(e.action)
        IN  e.interval =
                IF HasSetting(e.mp, key)
                THEN btd_parse_duration_string(Settings[<<e.mp, key>>])
                ELSE IF HasSetting(DefaultGroup, key)
                THEN btd_parse_duration_string(Settings[<<DefaultGroup, key>>])
                ELSE BuiltInInterval(e.action)

(* one run took an interval from the section of the mountpoint over the one
   of the default section, one from the default section and one from the
   built-in defaults *)
C13_Witness ==
    \E e, f, g \in Considered :
        /\ HasSetting(e.mp, IntervalKey(e.action))
        /\ HasSetting(DefaultGroup, IntervalKey(e.action))
        /\ e.interval = SECONDS_IN_A_DAY
        /\ ~HasSetting(f.mp, IntervalKey(f.action))
        /\ HasSetting(DefaultGroup, IntervalKey(f.action))
        /\ f.interval = 2 * SECONDS_IN_AN_HOUR
        /\ ~HasSetting(g.mp, IntervalKey(g.action))
        /\ ~HasSetting(DefaultGroup, IntervalKey(g.action))
        /\ g.action = BTD_BTRFS_ACTION_SCRUB /\ g.interval = SECONDS_IN_A_MONTH

(***************************************************************************)
(* C14                                                                     *)
(***************************************************************************)
RECURSIVE SumOfCounters(_)
SumOfCounters(array) ==
    IF array = <<>> THEN 0
    ELSE Head(array).write_io_errs + Head(array).read_io_errs
             + Head(array).flush_io_errs + Head(array).corruption_errs
             + Head(array).generation_errs + SumOfCounters(Tail(array))

(* C14: the total_errors that read_error_stats returns is the sum of the
   five counters over all device entries of the device-stats array. *)
C14_TotalIsSumOverDevices ==
    \A e \in Considered :
        (StatsInvoked(e) /\ e.h.read_ok) => e.h.total = SumOfCounters(e.h.devices)

(***************************************************************************)
(* C15                                                                     *)
(***************************************************************************)
(* the steps from a new or loaded scheduler that leave the result of a
   load() and do not move the clock are the calls of load() *)
(* C15: a load() of a scheduler that a load() has loaded fails with the
   already-initialized error and leaves reference_time, the mount list, the
   configuration and the default intervals as they were; a load() that fails
   on the mount table or on the configuration leaves the scheduler not
   loaded, a load() that succeeds leaves it loaded. *)
C15_LoadIsGuarded ==
    [][(pc \in {"new", "loaded"} /\ ret'.call = "load" /\ now' = now) =>
          /\ loaded =>
                 /\ ~ret'.ok /\ ret'.err = "already_initialized"
                 /\ loaded'
                 /\ UNCHANGED <<reference_time, mountpoints, config, default_intervals>>
          /\ ~loaded =>
                 /\ loaded' <=> ret'.ok
                 /\ ~ret'.ok =>
                        /\ ret'.err \in {"mount_table", "config"}
                        /\ ret'.err = "mount_table" <=> ~mtab.ok
                        /\ pc' = "failed"]_vars

(* a second load() of a scheduler with mounts has failed *)
C15_Witness ==
    /\ ret = [call |-> "load", ok |-> FALSE, err |-> "already_initialized"]
    /\ loaded
    /\ reference_time = start_time - ReferenceSlack
    /\ mountpoints = mtab.fs /\ mountpoints # <<>>
    /\ config = Settings /\ config # EmptyKeyFile

(***************************************************************************)
(* C16                                                                     *)
(***************************************************************************)
(* no pipeline was started: no handler was invoked, no notification was
   sent and the state directory is as the invocation found it *)
NothingWasDone ==
    /\ log = <<>>
    /\ files = pre_files
    /\ pc \notin {"mounts", "actions", "done"}

(* C16 as stated: when the effective user is not root, nothing is done and
   a run() that has returned has failed with the not-root error. *)
C16_NotRootFails ==
    euid # 0 =>
        /\ NothingWasDone
        /\ ret.call = "run" => (~ret.ok /\ ret.err = "not_root")

(* C16 amended: when the real user (getuid) is not root, nothing is done and
   a run() that has returned has failed: with the error of the load() it
   made if the mount table or the configuration could not be read, with the
   not-root error otherwise. *)
C16_NotRealRootFails ==
    uid # 0 =>
        /\ NothingWasDone
        /\ ret.call = "run" =>
               /\ ~ret.ok
               /\ ret.err = IF ~mtab.ok THEN "mount_table"
                            ELSE IF config_file.kind = "corrupt" THEN "config"
                            ELSE "not_root"

(* run() has failed with the not-root error on a machine with a mounted
   filesystem *)
C16_Witness ==
    /\ uid # 0
    /\ ret = [call |-> "run", ok |-> FALSE, err |-> "not_root"]
    /\ pc = "failed"
    /\ mountpoints # <<>>
    /\ NothingWasDone

(***************************************************************************)
(* C17                                                                     *)
(***************************************************************************)
IsNumeral(s) == s # <<>> /\ \A i \in 1..Len(s) : s[i] \in Digits

RECURSIVE DecimalValue(_)
DecimalValue(s) ==
    IF s = <<>> THEN 0
    ELSE 10 * DecimalValue(SubSeq(s, 1, Len(s) - 1)) + DigitVal(s[Len(s)])

Front(s) == SubSeq(s, 1, Len(s) - 1)

UnitSeconds(c) ==
    CASE c = "h" -> 3600
      [] c = "d" -> 86400
      [] c = "w" -> 604800
      [] c = "M" -> 2630016

(* a numeral, or a minus sign and a numeral, with or without one more
   character: the integer the string starts with *)
StartsWithInteger(s) ==
    \/ IsNumeral(s) \/ (Len(s) > 1 /\ IsNumeral(Front(s)))
    \/ s # <<>> /\ Head(s) = "-"
         /\ (IsNumeral(Tail(s)) \/ (Len(s) > 2 /\ IsNumeral(Front(Tail(s)))))

LeadingInteger(s) ==
    LET body == IF Head(s) = "-" THEN Tail(s) ELSE s
        digits == IF IsNumeral(body) THEN body ELSE Front(body)
    IN  IF Head(s) = "-" THEN 0 - DecimalValue(digits) ELSE DecimalValue(digits)

(* C17: parse_duration never returns a negative value; a positive integer
   followed by h, d, w or M gives that many hours, days, weeks or months in
   seconds, a bare positive integer that many hours; "never", a positive
   integer with any other one-character suffix, a string that does not start
   with a number, the empty string and an integer that is not positive all
   give 0. *)
C17_ParseDuration ==
    (call.fn = "parse_duration" /\ result # Pending) =>
        LET s == call.str
            seconds == result[1]
        IN  /\ seconds >= 0
            /\ (s # NULL /\ IsNumeral(s) /\ DecimalValue(s) > 0) =>
                   seconds = DecimalValue(s) * 3600
            /\ (s # NULL /\ Len(s) > 1 /\ IsNumeral(Front(s)) /\ DecimalValue(Front(s)) > 0) =>
                   /\ s[Len(s)] \in {"h", "d", "w", "M"} =>
                          seconds = DecimalValue(Front(s)) * UnitSeconds(s[Len(s)])
                   /\ s[Len(s)] \notin {"h", "d", "w", "M"} \cup Digits => seconds = 0
            /\ s \in {S_NEVER, S_NOTVALID, <<>>, NULL} => seconds = 0
            /\ (s \notin {NULL, <<>>} /\ Head(s) \notin Digits \cup {" ", "-", "+"}) => seconds = 0
            /\ (s # NULL /\ StartsWithInteger(s) /\ LeadingInteger(s) <= 0) => seconds = 0

(* "22M" was parsed as 22 months *)
C17_Witness ==
    /\ call = [fn |-> "parse_duration", str |-> <<"2", "2", "M">>]
    /\ result = <<22 * 2630016>>

(***************************************************************************)
(* C18                                                                     *)
(***************************************************************************)
Placeholder(key) == OPEN_BRACES \o key \o CLOSE_BRACES

ValueOf(pair) == IF pair[2] = NULL THEN <<>> ELSE pair[2]

(* the pairs whose text, braces included or not, the string starts with *)
StartingWith(text, pairs, braces) ==
    {j \in 1..Len(pairs) :
        g_str_has_prefix(text, IF braces THEN Placeholder(pairs[j][1])
                               ELSE pairs[j][1] \o CLOSE_BRACES)}

Occurs(sub, text) ==
    \E i \in 1..Len(text) : g_str_has_prefix(SubSeq(text, i, Len(text)), sub)

(* the text with every {{key}} of the pairs replaced by its value, read from
   left to right, and every other character kept *)
RECURSIVE Substitute(_, _)
Substitute(text, pairs) ==
    IF text = <<>> THEN <<>>
    ELSE IF StartingWith(text, pairs, TRUE) # {}
    THEN LET pair == pairs[FirstOf(StartingWith(text, pairs, TRUE))]
         IN  ValueOf(pair) \o
                 Substitute(SubSeq(text, Len(Placeholder(pair[1])) + 1, Len(text)), pairs)
    ELSE <<Head(text)>> \o Substitute(Tail(text), pairs)

(* one pass over the text that consumes every {{ it meets and replaces a
   key}} that follows one, or that the text starts with, by its value *)
RECURSIVE Scan(_, _, _)
Scan(text, pairs, opened) ==
    IF text = <<>> THEN <<>>
    ELSE IF opened /\ StartingWith(text, pairs, FALSE) # {}
    THEN LET pair == pairs[FirstOf(StartingWith(text, pairs, FALSE))]
         IN  ValueOf(pair) \o Scan(SubSeq(text, Len(pair[1]) + 3, Len(text)), pairs, FALSE)
    ELSE IF g_str_has_prefix(text, OPEN_BRACES)
    THEN LET rest == SubSeq(text, 3, Len(text))
         IN  IF StartingWith(rest, pairs, FALSE) # {}
             THEN Scan(rest, pairs, TRUE)
             ELSE OPEN_BRACES \o Scan(rest, pairs, FALSE)
    ELSE <<Head(text)>> \o Scan(Tail(text), pairs, FALSE)

(* nothing in the text that a rendering with these pairs would replace *)
NothingToReplace(text, pairs) ==
    /\ StartingWith(text, pairs, FALSE) = {}
    /\ \A j \in 1..Len(pairs) : ~Occurs(Placeholder(pairs[j][1]), text)

(* C18 as stated: the rendering is the template with every {{key}} of a
   given key replaced by its value (nil as the empty string) and everything
   else, placeholders of unknown keys included, kept; rendering the result
   again with the same pairs gives the same text. *)
C18_RenderTemplate ==
    (call.fn = "render_template" /\ result # Pending /\ call.template # NULL) =>
        /\ result[1] = Substitute(call.template, call.pairs)
        /\ btd_render_template(result[1], call.pairs) = result[1]

(* C18 amended: the rendering is one pass from left to right that consumes
   each {{ it meets: a key}} after it, and a key}} at the very start of the
   template, is replaced by the value of the first pair with that key (nil
   as the empty string); everything else, the {{ of unknown placeholders
   included, is kept.  Rendering the result again gives the same text when
   the result holds no {{key}} of a given key and does not start with a
   key}}. *)
C18_RenderScansOnce ==
    (call.fn = "render_template" /\ result # Pending /\ call.template # NULL) =>
        /\ result[1] = Scan(call.template, call.pairs, TRUE)
        /\ NothingToReplace(result[1], call.pairs) =>
               btd_render_template(result[1], call.pairs) = result[1]

(* {{a}}{{b}} was rendered with a -> b: the known placeholder is replaced,
   the unknown one is kept, and a second rendering changes nothing *)
C18_Witness ==
    /\ call = [fn |-> "render_template",
               template |-> S_TWO_PLACEHOLDERS,
               pairs |-> << <<S_A, S_B>> >>]
    /\ result = << <<"b", "{", "{", "b", "}", "}">> >>
    /\ NothingToReplace(result[1], call.pairs)

(***************************************************************************)
(* C19                                                                     *)
(***************************************************************************)
Separators == {"/", "-", "\\"}

(* the canonical path as its stem shows it: an underscore before a leading dot *)
DotShown(path) ==
    IF Len(path) >= 2 /\ path[2] = "." THEN <<"/", "_">> \o Tail(path) ELSE path

(* two canonical paths that differ only in which separator stands where *)
Confusable(path, other) ==
    LET a == DotShown(path)
        b == DotShown(other)
    IN  /\ Len(a) = Len(b)
        /\ \A i \in 1..Len(a) : a[i] = b[i] \/ (a[i] \in Separators /\ b[i] \in Separators)

RootPaths == {MP_ROOT, <<>>, <<".", ".">>, S_UP_UP_HERE}

EncodedCall == call.fn = "path_to_filename" /\ result # Pending

(* every path has an encoding; the root's is "-", and only the root's *)
RootIsDash ==
    EncodedCall =>
        /\ call.path \in RootPaths => result[1][1] = <<<<"-">>>>
        /\ result[1][1] = <<<<"-">>>> <=> g_canonicalize_filename(call.path) = MP_ROOT

(* /a/b/c and /a-b/c: one stem, two hash suffixes *)
ExampleStemsDiffer ==
    (EncodedCall /\ call.path = S_A_B_C /\ call.other = S_AB_C) =>
        /\ result[1][1][1] = result[1][2][1]
        /\ result[1][1][2] # result[1][2][2]

(* C19 as stated: every path has an encoding, a path that canonicalizes to
   the root has the encoding "-", and two paths with different canonical
   forms have different encodings. *)
C19_EncodeIsInjective ==
    /\ RootIsDash
    /\ ExampleStemsDiffer
    /\ EncodedCall =>
           (g_canonicalize_filename(call.path) # g_canonicalize_filename(call.other) =>
                result[1][1] # result[1][2])

(* C19 amended: every path has an encoding, a path that canonicalizes to
   the root has the encoding "-", /a/b/c and /a-b/c differ in the hash
   suffix, and two paths with different canonical forms have the same
   encoding only if those forms differ in nothing but the separators /, -
   and \ (or the underscore put before a leading dot) and have the same
   32-bit hash. *)
C19_EncodeCollidesOnlyOnHash ==
    /\ RootIsDash
    /\ ExampleStemsDiffer
    /\ EncodedCall =>
           LET path == g_canonicalize_filename(call.path)
               other == g_canonicalize_filename(call.other)
           IN  (path # other /\ result[1][1] = result[1][2]) =>
                   /\ Confusable(path, other)
                   /\ g_str_hash(path) = g_str_hash(other)

(* two different canonical paths of 17 components that have one encoding *)
C19_Witness ==
    /\ EncodedCall
    /\ call.path = S_LONG_1
    /\ call.other = S_LONG_2
    /\ g_canonicalize_filename(S_LONG_1) = S_LONG_1
    /\ g_canonicalize_filename(S_LONG_2) = S_LONG_2
    /\ result[1][1] = result[1][2]
    /\ result[1][1][2] = <<22973, 15265>>

(***************************************************************************)
(* C20                                                                     *)
(***************************************************************************)
(* the units from the smallest to the largest *)
TimeUnits ==
    << [one |-> "second", many |-> "seconds", size |-> 1],
       [one |-> "minute", many |-> "minutes", size |-> 60],
       [one |-> "hour", many |-> "hours", size |-> 3600],
       [one |-> "day", many |-> "days", size |-> 86400],
       [one |-> "month", many |-> "months", size |-> 2630016] >>

(* the largest unit that fits into the time, the second if none does *)
LargestUnit(seconds) ==
    IF seconds < 1 THEN 1
    ELSE CHOOSE u \in 1..Len(TimeUnits) :
             /\ TimeUnits[u].size <= seconds
             /\ \A v \in 1..Len(TimeUnits) : TimeUnits[v].size <= seconds => v <= u

Words(count, u) == <<count, IF count = 1 THEN TimeUnits[u].one ELSE TimeUnits[u].many>>

HumanizedCall == call.fn = "humanize_time" /\ result # Pending

Humanized(seconds, words) == HumanizedCall /\ call.seconds = seconds => result[1] = words

(* C20: the time is rendered as the count of its largest applicable unit,
   followed by the count of the next smaller unit of what is left unless
   that count is zero; a unit is in the singular exactly when its count is
   1. *)
C20_HumanizeTime ==
    /\ HumanizedCall =>
           LET u == LargestUnit(call.seconds)
               count == call.seconds \div TimeUnits[u].size
               left == call.seconds % TimeUnits[u].size
               smaller == IF u = 1 THEN 0 ELSE left \div TimeUnits[u - 1].size
           IN  result[1] = IF smaller = 0 THEN Words(count, u)
                           ELSE Words(count, u) \o Words(smaller, u - 1)
    /\ Humanized(1, <<1, "second">>)
    /\ Humanized(70, <<1, "minute", 10, "seconds">>)
    /\ Humanized(120, <<2, "minutes">>)
    /\ Humanized(3660, <<1, "hour", 1, "minute">>)
    /\ Humanized(86400 + 3600, <<1, "day", 1, "hour">>)
    /\ Humanized(2630016 + 86400, <<1, "month", 1, "day">>)

(* a month and a day *)
C20_Witness ==
    /\ call = [fn |-> "humanize_time", seconds |-> 2630016 + 86400]
    /\ result = << <<1, "month", 1, "day">> >>

(***************************************************************************)
(* C21                                                                     *)
(***************************************************************************)
Exited == call.fn = "main" /\ result # Pending

(* a state file of a mounted filesystem that cannot be parsed *)
StateRecordError ==
    \E i \in 1..Len(mtab.fs) :
        files[btd_fs_record_get_state_filename(mtab.fs[i].mountpoint)].kind = "corrupt"

(* C21: without a flag the executable runs the scheduler and exits 1 when
   the user is not root or the mount table cannot be read, 0 otherwise; with
   --status it exits 1 when a state record could not be loaded, 0 when all
   is clean. *)
C21_ExitCodes ==
    /\ (Exited /\ call.argv = <<>>) =>
           /\ result[1] = IF uid # 0 \/ ~mtab.ok THEN 1 ELSE 0
           /\ (uid = 0 /\ mtab.ok /\ mtab.fs # <<>>) => log # <<>>
    /\ (Exited /\ call.argv = <<"--status">> /\ mtab.ok) =>
           result[1] = IF StateRecordError THEN 1 ELSE 0

(***************************************************************************)
(* C22                                                                     *)
(***************************************************************************)
(* the successful saves of this invocation to the state file of mp *)
SavesTo(mp) ==
    {i \in Events("save") :
        /\ log[i].ok
        /\ StateFileNames[log[i].mp] = StateFileNames[mp]}

LastOf(S) == CHOOSE i \in S : \A j \in S : j <= i

(* the state file of mp holds what the last successful save of this
   invocation wrote, or what the invocation found if there was none *)
FileIsAsLastSaved(mp) ==
    IF SavesTo(mp) = {} THEN StateFile(files, mp) = StateFile(pre_files, mp)
    ELSE /\ StateFile(files, mp).kind = "ok"
         /\ TimesOf(StateFile(files, mp).kf) = log[LastOf(SavesTo(mp))].times

(* the log holds one save for each pipeline, right after its three actions *)
OneSavePerPipeline ==
    /\ \A i \in Events("save") :
           /\ i > BTD_BTRFS_ACTION_LAST
           /\ log[i - BTD_BTRFS_ACTION_LAST].ev = "pipeline"
           /\ log[i - BTD_BTRFS_ACTION_LAST].mp = log[i].mp
    /\ \A i \in Events("pipeline") :
           IF i + BTD_BTRFS_ACTION_LAST <= Len(log) THEN PipelineIsComplete(i)
           ELSE /\ pc = "actions"
                /\ record.mountpoint = log[i].mp
                /\ act = Len(log) - i + 1
                /\ \A j \in (i + 1)..Len(log) : log[j].ev = "consider"

(* the state directory is written by the save at the end of a pipeline only *)
OnlySaveWrites ==
    files' # files =>
        /\ pc = "actions" /\ act = BTD_BTRFS_ACTION_LAST /\ pc' = "mounts"
        /\ \A f \in DOMAIN files :
               files'[f] # files[f] =>
                   /\ f = StateFileNames[record.mountpoint]
                   /\ files'[f] = OkFile(record.state)

(* C22: the record of a filesystem is saved once per pipeline, after its
   three actions were considered and before the next pipeline starts, and
   nothing else writes a state file; so at any point of a pipeline the files
   of the filesystems handled before hold what their pipelines saved, and
   the file of the current filesystem holds none of its updates. *)
C22_SavedOncePerPipeline ==
    /\ [](OneSavePerPipeline /\ \A i \in Events("pipeline") : FileIsAsLastSaved(log[i].mp))
    /\ [][OnlySaveWrites]_vars

(* in the second pipeline of a run: the file of the first filesystem holds
   its new times, the file of the second one is as it was found although
   its record has changed *)
C22_Witness ==
    /\ pc = "actions"
    /\ Len(log) > BTD_BTRFS_ACTION_LAST + 2
    /\ log[1].ev = "pipeline"
    /\ log[1 + BTD_BTRFS_ACTION_LAST].ok
    /\ record.mountpoint # log[1].mp
    /\ StateFile(pre_files, log[1].mp).kind = "ok"
    /\ StateFile(files, log[1].mp).kind = "ok"
    /\ TimesOf(StateFile(files, log[1].mp).kf) # TimesOf(StateFile(pre_files, log[1].mp).kf)
    /\ TimesOf(StateFile(files, log[1].mp).kf) = log[1 + BTD_BTRFS_ACTION_LAST].times
    /\ StateFile(files, record.mountpoint) = StateFile(pre_files, record.mountpoint)
    /\ StateFile(files, record.mountpoint).kind = "ok"
    /\ TimesOf(record.state) # TimesOf(StateFile(files, record.mountpoint).kf)

(***************************************************************************)
(* C23                                                                     *)
(***************************************************************************)
FailedReads == {"spawn_failed", "command_failed", "parse_error", "no_device_stats"}

(* what the handler left of the notification state is what it found *)
NotificationStateKept(e) ==
    /\ e.h.broadcast_after = e.h.broadcast_before
    /\ e.h.mail_after = e.h.mail_before

(* the stats timestamp of the record, and of the record as saved, is the one
   that was loaded *)
StatsTimeKept(i) ==
    /\ log[i].stamp = log[i].last
    /\ log[i].last = LoadedTimes(i)[BTD_BTRFS_ACTION_STATS]
    /\ \A t \in SavedTimes(i) : t[BTD_BTRFS_ACTION_STATS] = log[i].last

(* C23: when reading the error statistics fails, for any of the four
   reasons, the stats handler returns "not launched", errors.total,
   messages.broadcast_sent, messages.issue_mail_sent and times.stats stay as
   they were, and neither a broadcast nor a mail is made. *)
C23_FailedReadChangesNothing ==
    \A i \in Events("consider") :
        LET e == log[i]
        IN  (StatsInvoked(e) /\ ~e.h.read_ok) =>
                /\ e.h.why \in FailedReads
                /\ ~e.launched
                /\ e.h.total_after = e.h.prev
                /\ NotificationStateKept(e)
                /\ StatsTimeKept(i)
                /\ ~e.h.broadcast
                /\ e.h.mail = "none"

(* the report could not be parsed while the record held an error count and
   the times of a broadcast and of a mail *)
C23_Witness ==
    \E i \in Events("consider") :
        /\ StatsInvoked(log[i]) /\ ~log[i].h.read_ok
        /\ log[i].h.why = "parse_error"
        /\ log[i].h.prev > 0 /\ log[i].h.total_after = log[i].h.prev
        /\ log[i].h.broadcast_before > 0 /\ log[i].h.mail_before > 0
        /\ i + 3 <= Len(log) /\ log[i + 3].ev = "save"

(***************************************************************************)
(* C24                                                                     *)
(***************************************************************************)
(* C24: when the stats handler reads a total of 0 errors it stores
   errors.total = 0, makes no broadcast and sends no mail, leaves
   messages.broadcast_sent and messages.issue_mail_sent as they were and
   returns "launched", so that times.stats is set. *)
C24_NoErrorsResetsTotal ==
    \A e \in Considered :
        (StatsInvoked(e) /\ e.h.read_ok /\ e.h.total = 0) =>
            /\ e.h.total_after = 0
            /\ ~e.h.broadcast
            /\ e.h.mail = "none"
            /\ NotificationStateKept(e)
            /\ e.launched
            /\ e.stamp = e.at /\ e.at >= start_time

(* a clean report arrived for a record that held an error count *)
C24_Witness ==
    \E e \in Considered :
        /\ StatsInvoked(e) /\ e.h.read_ok /\ e.h.total = 0
        /\ e.h.prev > 0 /\ e.h.total_after = 0
        /\ e.h.broadcast_before > 0 /\ e.h.mail_before > 0
        /\ e.launched /\ e.stamp = e.at /\ e.stamp # e.last

(***************************************************************************)
(* C25                                                                     *)
(***************************************************************************)
AllBlank(str) == \A i \in 1..Len(str) : str[i] = " "

(* the mail_address that applies to mp: the one of its own section if it has
   one, else the one of the default section, else none *)
MailSetting(mp) ==
    IF HasSetting(mp, "mail_address") THEN Settings[<<mp, "mail_address">>]
    ELSE IF HasSetting(DefaultGroup, "mail_address")
    THEN Settings[<<DefaultGroup, "mail_address">>]
    ELSE NULL

NoMailAddress(mp) == MailSetting(mp) = NULL \/ AllBlank(MailSetting(mp))

(* C25: when errors are found and no mail address is configured (absent
   from the section of the mountpoint and from the default section, or empty
   after trimming) no mail is attempted, messages.issue_mail_sent stays as it
   was, and the stats handler returns "launched", so that times.stats is
   set. *)
C25_NoAddressNoMail ==
    \A e \in Considered :
        (FoundErrors(e) /\ NoMailAddress(e.mp)) =>
            /\ ~SendAttempted(e)
            /\ e.h.mail = "unconfigured"
            /\ e.h.mail_after = e.h.mail_before
            /\ e.launched
            /\ e.stamp = e.at /\ e.at >= start_time

(* errors were found on a mountpoint whose own mail_address is blank while
   the default section names one *)
C25_Witness ==
    \E e \in Considered :
        /\ FoundErrors(e)
        /\ HasSetting(e.mp, "mail_address") /\ Settings[<<e.mp, "mail_address">>] = S_BLANK
        /\ HasSetting(DefaultGroup, "mail_address")
        /\ Settings[<<DefaultGroup, "mail_address">>] = S_ADDRESS
        /\ e.h.mail = "unconfigured" /\ e.launched
        /\ e.h.total > e.h.prev

(***************************************************************************)
(* C26                                                                     *)
(***************************************************************************)
(* the notification of the errors found did not get through: the mail could
   not be sent, or the broadcast met no terminal to write to *)
MailFailed(e) == FoundErrors(e) /\ e.h.mail = "failed"

BroadcastUnread(e) == FoundErrors(e) /\ e.h.broadcast /\ e.h.wall = "no_terminal"

(* what the loop is to do with scrub or balance as considered in e: they are
   run if enabled, due and not held back by battery power *)
DueAndAllowed(e) == e.interval # 0 /\ e.ref - e.last > e.interval /\ ~e.power

(* the rest of the pipeline whose stats were considered at log position i *)
RestOfPipeline(i) ==
    /\ \A a \in {BTD_BTRFS_ACTION_SCRUB, BTD_BTRFS_ACTION_BALANCE} :
           LET j == i + (a - BTD_BTRFS_ACTION_STATS)
           IN  j <= Len(log) =>
                   /\ IsConsider(j, log[i].mp, a)
                   /\ log[j].verdict = "invoked" <=> DueAndAllowed(log[j])
    /\ LET j == i + (BTD_BTRFS_ACTION_LAST - BTD_BTRFS_ACTION_STATS)
       IN  IF j <= Len(log)
           THEN log[j].ev = "save" /\ log[j].mp = log[i].mp
           ELSE /\ pc = "actions" /\ record.mountpoint = log[i].mp
                /\ act = BTD_BTRFS_ACTION_STATS + (Len(log) - i) + 1

(* C26: a mail that could not be sent (sendmail missing, spawn failure or
   non-zero exit) or a broadcast that reaches no terminal does not block
   what follows: in the same pipeline scrub and balance are still
   considered, and run if due and allowed, and the record is still saved. *)
C26_NotificationFailureDoesNotBlock ==
    \A i \in Events("consider") :
        (MailFailed(log[i]) \/ BroadcastUnread(log[i])) => RestOfPipeline(i)

(* sendmail exited non-zero and the broadcast met no terminal; the scrub was
   then launched, the balance considered and the record saved *)
C26_Witness ==
    \E i \in Events("consider") :
        /\ MailFailed(log[i]) /\ log[i].h.send = "exit_nonzero"
        /\ BroadcastUnread(log[i])
        /\ ~log[i].launched
        /\ i + 3 <= Len(log)
        /\ log[i + 1].action = BTD_BTRFS_ACTION_SCRUB /\ log[i + 1].launched
        /\ log[i + 2].action = BTD_BTRFS_ACTION_BALANCE
        /\ log[i + 3].ev = "save" /\ log[i + 3].ok

(***************************************************************************)
(* C27                                                                     *)
(***************************************************************************)
(* the lines of a text: what stands between its newlines *)
Newlines(text) == {i \in 1..Len(text) : text[i] = NL}

(* where the k-th line of the text ends: at its k-th newline, or after its
   last byte *)
LineEnd(text, k) ==
    IF k > Cardinality(Newlines(text)) THEN Len(text) + 1
    ELSE CHOOSE i \in Newlines(text) :
             Cardinality({j \in Newlines(text) : j <= i}) = k

LinesOf(text) ==
    [k \in 1..(Cardinality(Newlines(text)) + 1) |->
        SubSeq(text, IF k = 1 THEN 1 ELSE LineEnd(text, k - 1) + 1, LineEnd(text, k) - 1)]

ReportedCall == call.fn = "parse_device_stats" /\ result # Pending

ReportLines == LinesOf(result[1].report)

HasErrors(d) == DeviceErrors(d) # 0

(* the devices of the call that have a counter that is not zero *)
DevicesWithErrors == SelectSeq(call.array, HasErrors)

NamesDevice(line) == g_str_has_prefix(line, T_DEVICE)

(* the lines of the report that open an issue block *)
IssueBlocks == SelectSeq(ReportLines, NamesDevice)

NoErrorsFoundLine == Front(T_NO_ERRORS_FOUND)

(* every device is listed under "Registered Devices", in the order of the
   array, and the list is closed by an empty line *)
DevicesAreListed ==
    LET n == Len(call.array)
    IN  /\ Len(ReportLines) >= n + 3
        /\ ReportLines[1] = Front(T_REGISTERED_DEVICES)
        /\ \A k \in 1..n : ReportLines[1 + k] = T_BULLET \o call.array[k].device
        /\ ReportLines[n + 2] = <<>>
        /\ ReportLines[n + 3] = Front(T_ISSUE_REPORT)

(* there is one issue block for each device that has a counter that is not
   zero, and none for the others *)
OneIssueBlockPerFailingDevice ==
    /\ Len(IssueBlocks) = Len(DevicesWithErrors)
    /\ \A k \in 1..Len(IssueBlocks) :
           IssueBlocks[k] = T_DEVICE \o DevicesWithErrors[k].device

HasNoErrorsFoundLine == \E j \in 1..Len(ReportLines) : ReportLines[j] = NoErrorsFoundLine

(* C27: the report lists every device under "Registered Devices", contains
   one issue block per device that has at least one non-zero counter, and
   contains the "No errors found" line iff no device has a non-zero counter,
   for any number and order of devices. *)
C27_Report ==
    ReportedCall =>
        /\ DevicesAreListed
        /\ OneIssueBlockPerFailingDevice
        /\ HasNoErrorsFoundLine <=> DevicesWithErrors = <<>>

(* the part of the report that is as C27 says: the list of the devices and
   the issue blocks *)
C27_ListAndBlocks == ReportedCall => DevicesAreListed /\ OneIssueBlockPerFailingDevice

(***************************************************************************)
(* C28                                                                     *)
(***************************************************************************)
(* btd_scheduler_print_status came back from a scheduler that has a list of
   mounts *)
StatusReturned == call.fn = "print_status" /\ result # Pending /\ ~result[1].crashed

StatusBlocks == {result[1].blocks[key] : key \in DOMAIN result[1].blocks}

(* the state file of the filesystem a block is about *)
RecordFileOf(block) == files[btd_fs_record_get_state_filename(block.mountpoint)]

LoadErrorOccurred(block) == RecordFileOf(block).kind = "corrupt"

(* there is one block for each device among the mounts, headed by the first
   of its mountpoints *)
OneBlockPerFilesystem ==
    /\ DOMAIN result[1].blocks = DevnoKeys
    /\ \A key \in DevnoKeys : \A i \in 1..Len(mountpoints) :
           KeyIs(key, mountpoints[i]) =>
               g_strcmp0(result[1].blocks[key].mountpoint, mountpoints[i].mountpoint) <= 0

(* "Never" is printed for an action exactly when the stored time is 0 or no
   state file existed; nothing is printed when the record did not load *)
NeverIsPrintedRight(block) ==
    \A j \in Actions :
        IF LoadErrorOccurred(block) THEN block.actions[j].last_run = NothingPrinted
        ELSE /\ block.actions[j].last_run # NothingPrinted
             /\ block.actions[j].last_run.text = "Never"
                    <=> \/ PersistedTime(RecordFileOf(block), j) = 0
                        \/ RecordFileOf(block).kind = "absent"

(* C28: print_status returns true iff no state-record load error occurred
   for any filesystem; for each action it prints "Never" as the last-run
   time exactly when the stored timestamp is 0 or the record is new (no
   state file existed); and it never creates or modifies a state file. *)
C28_PrintStatus ==
    /\ call.fn = "print_status" => files = pre_files
    /\ StatusReturned =>
           /\ Len(mountpoints) # 0 => OneBlockPerFilesystem
           /\ result[1].ret <=> \A block \in StatusBlocks : ~LoadErrorOccurred(block)
           /\ \A block \in StatusBlocks : NeverIsPrintedRight(block)

(* the status of two filesystems was printed: one has no state file, and
   its scrub shows "Never" although the new record holds a time for it; the
   other has run its stats and never its balance *)
C28_Witness ==
    /\ StatusReturned /\ result[1].ret
    /\ \E b1, b2 \in StatusBlocks :
           /\ RecordFileOf(b1).kind = "absent"
           /\ b1.actions[BTD_BTRFS_ACTION_SCRUB].last_run.text = "Never"
           /\ RecordFileOf(b2).kind = "ok"
           /\ b2.actions[BTD_BTRFS_ACTION_STATS].last_run.unix_local = StartOfTime - 60
           /\ b2.actions[BTD_BTRFS_ACTION_BALANCE].last_run.text = "Never"

(***************************************************************************)
(* C29                                                                     *)
(***************************************************************************)
Logged == call.fn = "log" /\ result # Pending

(* built with systemd support and booted with systemd *)
JournalIsAvailable == call.have_systemd /\ call.sd_booted > 0

(* C29: the logging backend chosen at startup is the console if stdout is a
   TTY; otherwise the journal if it is available (built with systemd support
   and booted with systemd); otherwise syslog, so that messages go to syslog
   when stdout is not a TTY and the journal is not available. *)
C29_LoggingBackend ==
    Logged =>
        /\ result[1].backend = IF call.is_tty THEN LB_CONSOLE
                               ELSE IF JournalIsAvailable THEN LB_JOURNAL
                               ELSE LB_SYSLOG
        /\ result[1].message.to = IF call.is_tty THEN "console"
                                  ELSE IF JournalIsAvailable THEN "journal"
                                  ELSE "syslog"

(* the same for a build with systemd support *)
C29_LoggingBackendWithSystemd == (Logged /\ call.have_systemd) => C29_LoggingBackend

(***************************************************************************)
(* C30                                                                     *)
(***************************************************************************)
Launched(e) == e.verdict = "invoked" /\ e.launched

(* p is the launch of the invocation before that e repeats, and the state
   file this invocation found holds the time recorded for it *)
IsPreviousLaunchOf(p, e) ==
    /\ p.launched /\ p.mp = e.mp /\ p.action = e.action /\ p.interval = e.interval
    /\ PersistedTime(StateFile(pre_files, e.mp), e.action) = p.at

(* C30: across invocations that use the same state record and an unchanged
   interval I > 0, an action is never launched again within I seconds of the
   time recorded for its previous launch: its handler is called more than I
   seconds after the time the record holds, and so more than I seconds after
   the launch of the invocation before. *)
C30_LaunchesAreSeparated ==
    \A e \in Considered :
        (Launched(e) /\ e.interval > 0) =>
            /\ e.began - e.last > e.interval
            /\ \A p \in prev.considered :
                   IsPreviousLaunchOf(p, e) =>
                       /\ e.last = p.at
                       /\ e.began - p.at > e.interval

(* the stats were launched in two invocations in a row, the second as early
   as the timer and the due test allow *)
C30_Witness ==
    \E e \in Considered : \E p \in prev.considered :
        /\ Launched(e) /\ e.action = BTD_BTRFS_ACTION_STATS
        /\ e.interval = SECONDS_IN_AN_HOUR
        /\ IsPreviousLaunchOf(p, e)
        /\ e.began - p.at = e.interval + ReferenceSlack + 1

(***************************************************************************)
(* C31                                                                     *)
(***************************************************************************)
(* the event that started the pipeline of the consider event at i *)
PipelineOf(i) == i - log[i].action

(* the calls of the handler of action a in pipelines of the device devno *)
HandlerCalls(devno, a) ==
    {i \in Events("consider") :
        /\ log[i].verdict = "invoked" /\ log[i].action = a
        /\ log[PipelineOf(i)].devno = devno}

(* C31: within one run(), each handler is invoked at most once per device
   number (one stats read, one scrub, one balance), and no handler is
   invoked for a mount that deduplication skipped: every action considered
   belongs to a pipeline, and what follows a skip is the next mount. *)
C31_HandlersRunOncePerDevice ==
    /\ \A devno \in Devnos : \A a \in Actions : Cardinality(HandlerCalls(devno, a)) <= 1
    /\ \A i \in Events("consider") :
           /\ PipelineOf(i) >= 1
           /\ log[PipelineOf(i)].ev = "pipeline"
    /\ \A i \in Events("skip") :
           /\ i < Len(log) => log[i + 1].ev \in {"skip", "pipeline"}
           /\ i = Len(log) => pc \in {"mounts", "done"}

(* a run is over in which the stats and the scrub handler were invoked for
   the first mount of a device and its second mount was skipped *)
C31_Witness ==
    /\ RunIsOver
    /\ \E i \in Events("skip") : \E j \in Events("pipeline") :
           /\ j < i
           /\ log[j].devno = log[i].devno
           /\ log[j].mp # log[i].mp
           /\ \A a \in {BTD_BTRFS_ACTION_STATS, BTD_BTRFS_ACTION_SCRUB} :
                  Cardinality(HandlerCalls(log[i].devno, a)) = 1

(***************************************************************************)
(* C32                                                                     *)
(***************************************************************************)
(* the device numbers of the mount list *)
DevnosMounted == {mtab.fs[i].devno : i \in 1..Len(mtab.fs)}

(* C32: deduplication never drops a filesystem: when run() is over, every
   device number of the mount list, compared in all its 64 bits, had the
   pipeline invoked for one of its mounts; and a mount is skipped only if a
   mount of exactly the same device number was processed before it in the
   same run. *)
C32_NoFilesystemIsDropped ==
    /\ RunIsOver =>
           \A devno \in DevnosMounted :
               \E i \in Events("pipeline") :
                   /\ log[i].devno = devno
                   /\ \E m \in MountsOf(devno) : mtab.fs[m].mountpoint = log[i].mp
    /\ \A i \in Events("skip") :
           \E j \in Events("pipeline") : j < i /\ log[j].devno = log[i].devno

(* a run is over whose mount list held two devices with numbers that differ
   in their upper 32 bits only: each had its pipeline *)
C32_Witness ==
    /\ RunIsOver
    /\ DevnosMounted = {DEV_42, DEV_42_HIGH}
    /\ \E i, j \in Events("pipeline") :
           log[i].devno = DEV_42 /\ log[j].devno = DEV_42_HIGH

(***************************************************************************)
(* C33                                                                     *)
(***************************************************************************)
(* the mountpoints the pipelines of this invocation were started for *)
Representatives == {log[i].mp : i \in Events("pipeline")}

(* no pipeline before the one at i used the state file of its mountpoint *)
FirstUseOfFile(i) ==
    \A j \in Events("pipeline") :
        j < i => StateFileNames[log[j].mp] # StateFileNames[log[i].mp]

(* the pipeline at i started from what the state file of its own mountpoint
   held: a new record if there was none, its times if it could be read *)
ReadItsOwnFile(i) ==
    LET f == StateFile(pre_files, log[i].mp)
    IN  /\ log[i].is_new <=> f.kind = "absent"
        /\ log[i].load_ok <=> f.kind # "corrupt"
        /\ f.kind = "ok" => log[i].times = TimesOf(f.kf)

(* C33: run() reads and writes only the state record keyed by the
   representative mountpoint of each filesystem, the one that sorts first
   among its mounts: a pipeline starts from the file of its own mountpoint
   whatever the files of the other mountpoints hold, and the state file of a
   mountpoint that is the representative of no filesystem is neither created
   nor modified; so a filesystem whose representative has changed since the
   invocation before is handled with the record of the new one. *)
C33_OnlyTheRepresentativeRecord ==
    /\ \A i \in Events("pipeline") :
           /\ \A m \in MountsOf(log[i].devno) :
                  g_strcmp0(log[i].mp, mtab.fs[m].mountpoint) <= 0
           /\ FirstUseOfFile(i) => ReadItsOwnFile(i)
    /\ \A mp \in Mountpoints :
           \/ StateFile(files, mp) = StateFile(pre_files, mp)
           \/ /\ mp \in Representatives
              /\ SavesTo(mp) # {}

(* the second invocation is over: the filesystem, handled under its only
   mountpoint before, has since been mounted at a place that sorts earlier
   and was handled with a new record, which was saved; the file of the
   mountpoint used before is as it was saved then *)
C33_Witness ==
    /\ RunIsOver
    /\ invocations = 2
    /\ \E p \in prev.considered : p.mp = MP_A /\ p.launched
    /\ Len(mtab.fs) = 2
    /\ DevnosMounted = {DEV_42}
    /\ Representatives = {MP_ROOT}
    /\ log[1].is_new
    /\ StateFile(pre_files, MP_A).kind = "ok"
    /\ StateFile(files, MP_A) = StateFile(pre_files, MP_A)
    /\ StateFile(pre_files, MP_ROOT).kind = "absent"
    /\ StateFile(files, MP_ROOT).kind = "ok"

(***************************************************************************)
(* C34                                                                     *)
(***************************************************************************)
(* p, an action of the invocation before, is considered again as e, for the
   same state record and with the same interval *)
IsConsideredAgain(p, e) ==
    e.mp = p.mp /\ e.action = p.action /\ e.interval = p.interval

(* C34: a scrub or balance that is due but skipped on battery keeps its
   timestamp, in the record and in what is saved, so the next invocation
   finds it due again with the same timestamp and, if the machine is then
   not on battery, invokes its handler (and records a launch if the
   subprocess can be launched); while on battery it is skipped again: the
   skip postpones the action and never cancels it. *)
C34_BatterySkipPostpones ==
    /\ \A i \in Events("consider") :
           log[i].verdict = "battery" =>
               /\ log[i].action # BTD_BTRFS_ACTION_STATS
               /\ log[i].ref - log[i].last > log[i].interval
               /\ ~log[i].launched
               /\ log[i].stamp = log[i].last
               /\ \A t \in SavedTimes(i) : t[log[i].action] = log[i].last
    /\ \A p \in prev.considered : \A e \in Considered :
           (p.verdict = "battery" /\ IsConsideredAgain(p, e)) =>
               /\ e.last = p.last
               /\ e.ref - e.last > e.interval
               /\ e.verdict = IF e.power THEN "battery" ELSE "invoked"
               /\ (~e.power /\ e.h.spawn = "ok") => (e.launched /\ e.stamp = e.at)

(* a scrub skipped on battery by one invocation was launched by the next
   one, which found the machine on mains power *)
C34_Witness ==
    \E p \in prev.considered : \E e \in Considered :
        /\ p.verdict = "battery" /\ p.action = BTD_BTRFS_ACTION_SCRUB
        /\ IsConsideredAgain(p, e)
        /\ ~e.power /\ e.launched /\ e.stamp > e.last

(***************************************************************************)
(* C35                                                                     *)
(***************************************************************************)
(* the stats handler found more errors than the record held and the mail
   about them could not be sent *)
NewErrorsMailFailed(e) ==
    /\ StatsInvoked(e) /\ e.h.read_ok
    /\ e.h.total > e.h.prev
    /\ e.h.mail = "failed"

(* the state file of the pipeline of the consider event at i, once its
   record was saved and no later pipeline has written the same file *)
SavedFileOf(i) ==
    LET s == PipelineOf(i) + BTD_BTRFS_ACTION_LAST
    IN  IF s <= Len(log) /\ log[s].ok /\ s = LastOf(SavesTo(log[i].mp) \cup {s})
        THEN {StateFile(files, log[i].mp).kf}
        ELSE {}

(* C35: when the stats handler finds an increased error total and the mail
   cannot be sent, it returns "not launched": times.stats and
   messages.issue_mail_sent stay as loaded, while the new errors.total and
   the new messages.broadcast_sent are in the record and in the file saved
   at the end of the pipeline. *)
C35_FailedMailKeepsTheRest ==
    \A i \in Events("consider") :
        NewErrorsMailFailed(log[i]) =>
            LET e == log[i]
            IN  /\ ~e.launched
                /\ e.stamp = e.last
                /\ e.h.mail_after = e.h.mail_before
                /\ e.h.total_after = e.h.total
                /\ e.h.broadcast
                /\ e.h.broadcast_after = e.ref
                /\ \A kf \in SavedFileOf(i) :
                       /\ btd_fs_record_get_last_action_time(kf, BTD_BTRFS_ACTION_STATS) =
                              e.last
                       /\ btd_fs_record_get_value_int(kf, "messages", "issue_mail_sent", 0) =
                              e.h.mail_before
                       /\ btd_fs_record_get_value_int(kf, "errors", "total", 0) = e.h.total
                       /\ btd_fs_record_get_value_int(kf, "messages", "broadcast_sent", 0) =
                              e.ref

(* a run is over in which the mail about new errors failed: the file saved
   holds the new count and the time of the broadcast, and the old time of
   the stats and of the last mail *)
C35_Witness ==
    /\ RunIsOver
    /\ \E i \in Events("consider") :
           /\ NewErrorsMailFailed(log[i])
           /\ log[i].h.mail_before > 0
           /\ log[i].h.broadcast_before # log[i].ref
           /\ SavedFileOf(i) # {}
           /\ \A kf \in SavedFileOf(i) :
                  btd_fs_record_get_value_int(kf, "errors", "total", 0) = log[i].h.total

(***************************************************************************)
(* C36                                                                     *)
(***************************************************************************)
(* p, a stats run of the invocation before, found more errors than the
   record held, could not send the mail about them, and its record was saved *)
NewErrorsWentUnmailed(p) ==
    /\ p.read_ok /\ p.total > p.before
    /\ p.mail = "failed"
    /\ p.saved

(* the stats run e finds the errors p found still there, with a mail address
   configured *)
ErrorsPersist(p, e) ==
    /\ StatsInvoked(e) /\ e.mp = p.mp
    /\ e.h.read_ok /\ e.h.total = p.total
    /\ MailIsConfigured(e.h.address)

MailAttempted(e) == e.h.mail \in {"sent", "failed"}

(* C36: a mail about newly detected errors is never lost to a failed send:
   if the error total increased and the send failed, the next invocation in
   which stats runs, the errors persist and a mail address is configured
   attempts the mail again, without waiting for the 20 h reminder window. *)
C36_FailedMailIsAttemptedAgain ==
    \A p \in prev.stats : \A e \in Considered :
        (NewErrorsWentUnmailed(p) /\ ErrorsPersist(p, e)) => MailAttempted(e)

(* what the code does instead: the count of the failed attempt was saved,
   so the errors are not new to the next stats run, and the mail is
   attempted again only once 20 h have passed since the last mail that was
   sent *)
C36_AttemptedAgainAfterReminderWindow ==
    \A p \in prev.stats : \A e \in Considered :
        (NewErrorsWentUnmailed(p) /\ ErrorsPersist(p, e)) =>
            /\ e.h.prev = p.total
            /\ MailAttempted(e) <=> e.ref - e.h.mail_before >= MailWindow
            /\ ~MailAttempted(e) => e.h.mail = "suppressed"

(* the mail about new errors failed an hour ago, an older mail was sent two
   hours ago, and this stats run, which finds the errors still there, does
   not try again *)
C36_Lost ==
    \E p \in prev.stats : \E e \in Considered :
        /\ NewErrorsWentUnmailed(p) /\ ErrorsPersist(p, e)
        /\ e.h.mail = "suppressed"
        /\ e.h.mail_before > 0

(***************************************************************************)
(* C37                                                                     *)
(***************************************************************************)
(* p, a stats run of the invocation before, found no errors, and its record
   was saved *)
FoundClean(p) == p.read_ok /\ p.total = 0 /\ p.saved

(* the stats run e announced the errors it found: it made a broadcast and
   recorded it, and attempted a mail if an address is configured *)
Announced(e) ==
    /\ e.h.broadcast
    /\ e.h.broadcast_after = e.ref
    /\ MailIsConfigured(e.h.address) => MailAttempted(e)

(* C37: if a stats run observed zero errors, which resets errors.total to
   0, and a later stats run observes a non-zero total, the later run always
   makes a broadcast and, when a mail address is configured, always attempts
   a mail, however recent messages.broadcast_sent and
   messages.issue_mail_sent are; as does every stats run that finds more
   errors than its record holds. *)
C37_ErrorsAfterCleanAreAnnounced ==
    /\ \A p \in prev.stats : \A e \in Considered :
           (/\ FoundClean(p)
            /\ StatsInvoked(e) /\ e.mp = p.mp
            /\ e.h.read_ok /\ e.h.total > 0) =>
               /\ e.h.prev = 0
               /\ Announced(e)
    /\ \A e \in Considered :
           (StatsInvoked(e) /\ e.h.read_ok /\ e.h.total > e.h.prev) => Announced(e)

(* errors were found an hour after a clean run, with a broadcast and a mail
   recorded two hours before: both were made again *)
C37_Witness ==
    \E p \in prev.stats : \E e \in Considered :
        /\ FoundClean(p)
        /\ StatsInvoked(e) /\ e.mp = p.mp
        /\ e.h.read_ok /\ e.h.total > 0
        /\ e.h.broadcast_before > 0
        /\ e.ref - e.h.broadcast_before < BroadcastWindow
        /\ e.h.mail_before > 0
        /\ e.ref - e.h.mail_before < MailWindow
        /\ e.h.broadcast
        /\ MailAttempted(e)

(***************************************************************************)
(* C38                                                                     *)
(***************************************************************************)
(* the pipelines that could not parse their state file, the first to use it *)
UnparsedPipelines ==
    {i \in Events("pipeline") : ~log[i].load_ok /\ FirstUseOfFile(i)}

(* the actions of the pipeline at i that were considered with no last-run
   time and are enabled were found due: their handlers were invoked, except
   for scrub and balance on battery *)
UnsetTimesAreDue(i) ==
    \A a \in Actions :
        LET j == i + a
        IN  (j <= Len(log) /\ log[j].last = 0 /\ log[j].interval # 0) =>
                /\ log[j].ref - log[j].last > log[j].interval
                /\ log[j].verdict =
                       IF a # BTD_BTRFS_ACTION_STATS /\ log[j].power THEN "battery"
                       ELSE "invoked"

(* the unparsable file of the pipeline at i is replaced once its record is
   saved *)
SaveReplacesTheFile(i) ==
    LET s == i + BTD_BTRFS_ACTION_LAST
    IN  (s <= Len(log) /\ log[s].ok /\ s = LastOf(SavesTo(log[i].mp) \cup {s})) =>
            /\ StateFile(files, log[i].mp).kind = "ok"
            /\ TimesOf(StateFile(files, log[i].mp).kf) = log[s].times

(* C38 as stated: when an existing state file cannot be parsed, the
   pipeline continues with an empty record that is not marked new and not
   pre-seeded: every last-run time reads as 0, so every enabled action is
   due in that invocation (scrub and balance when not on battery), and the
   record saved at the end replaces the unparsable file. *)
C38_UnparsableFileGivesEmptyRecord ==
    \A i \in UnparsedPipelines :
        /\ ~log[i].is_new
        /\ \A a \in Actions : log[i].times[a] = 0
        /\ UnsetTimesAreDue(i)
        /\ SaveReplacesTheFile(i)

(* C38 amended: when an existing state file cannot be parsed, the pipeline
   continues with a record that holds what was read before the line that
   could not be parsed (nothing if the file is bad from its start), is not
   marked new and is not pre-seeded: a last-run time that was not read reads
   as 0 and its action, if enabled, is due in that invocation (scrub and
   balance when not on battery), a time that was read is used as it is; the
   record, if its save succeeds, replaces the unparsable file. *)
C38_UnparsableFileKeepsWhatWasRead ==
    \A i \in UnparsedPipelines :
        LET f == StateFile(pre_files, log[i].mp)
        IN  /\ f.kind = "corrupt"
            /\ ~log[i].is_new
            /\ log[i].times = TimesOf(f.kf)
            /\ \A a \in Actions : i + a <= Len(log) => log[i + a].last = log[i].times[a]
            /\ UnsetTimesAreDue(i)
            /\ SaveReplacesTheFile(i)

(* a run is over that found a state file with the time of the stats, five
   seconds old, before its bad line: the stats were not due, the scrub, with
   no time read, was run, and the file was replaced *)
C38_Witness ==
    /\ RunIsOver
    /\ \E i \in UnparsedPipelines :
           /\ log[i].times[BTD_BTRFS_ACTION_STATS] > 0
           /\ log[i + BTD_BTRFS_ACTION_STATS].verdict = "not_due"
           /\ log[i].times[BTD_BTRFS_ACTION_SCRUB] = 0
           /\ log[i + BTD_BTRFS_ACTION_SCRUB].verdict = "invoked"
           /\ log[i + BTD_BTRFS_ACTION_LAST].ok
           /\ StateFile(pre_files, log[i].mp).kind = "corrupt"
           /\ StateFile(files, log[i].mp).kind = "ok"

====
